---- MODULE Spec2Model ----
(***************************************************************************)
(* Pan/tilt light-spot tracker: the tracking controller of servo_track.c   *)
(* driven by the detection result of spot_detect.c, the servo driver       *)
(* Servo.c it actuates, the frame loop of main.c that calls both, and the  *)
(* command exchange of esp8266.h.                                          *)
(*                                                                         *)
(* Numeric representation.  The C code keeps angles and gains in float.    *)
(* Here an angle is an integer number of 1/AngleScale degrees and a gain   *)
(* is an integer number of 1/FactorScale; every float expression is        *)
(* evaluated exactly and rounded to the nearest grid value where the C     *)
(* code stores it in a float variable.  Inputs are finite numbers.         *)
(***************************************************************************)
EXTENDS Integers, Sequences, FiniteSets, TLC

VARIABLES
    config,            \* static servo_track_config_t config
    state,             \* static servo_track_state_t state
    current_mode,      \* static servo_track_mode_t current_mode
    pan_invert_flag,   \* static uint8_t pan_invert_flag
    tilt_invert_flag,  \* static uint8_t tilt_invert_flag
    spot_result,       \* static spot_result_t spot_result (spot_detect.c)
    bright_threshold,  \* static uint16_t bright_threshold
    last_x,            \* static float last_x, in 1/PosScale pixels
    last_y,            \* static float last_y, in 1/PosScale pixels
    init_frames,       \* static uint8_t init_frames
    lost_count,        \* static uint8_t lost_count
    det_op,            \* the operation of spot_detect.c executed last and the
                       \* exit it took
    centroid,          \* the position <<x, y>> computed by the last successful
                       \* locate call before mirror correction and filtering
    successes,         \* successful locate calls since SPOT_Detect_Reset
    op,                \* the control operation of servo_track.c executed last
    servo_calls,       \* the Servo_SetAngle calls that operation issued
    run,               \* length of the current run of not-found AUTO ticks
    moves,             \* commands issued and angle pairs committed by
                       \* ServoTrack_Process so far
    g_jpeg_data_ok,    \* volatile uint8_t g_jpeg_data_ok (main.c)
    loop_pc,           \* position of jpeg_test inside its while(1) body
    ticks_on_result,   \* executions of ServoTrack_Process by jpeg_test since
                       \* it last ran the detector
    rgb565,            \* argument of the last rgb565_to_brightness call
    brightness,        \* its return value
    servo_center_offset, \* static float servo_center_offset[2] (Servo.c)
    servo_angle_min,   \* static float servo_angle_min[2]
    servo_angle_max,   \* static float servo_angle_max[2]
    compare,           \* the compare registers of TIM2 channels 1 and 2,
                       \* indexed by servo channel 0 and 1
    g_esp8266_rx_buf,  \* static char g_esp8266_rx_buf[512] up to its
                       \* terminator; its length is g_esp8266_rx_len
    send_cmd,          \* the activation of esp8266_send_cmd: arguments,
                       \* position, elapsed ticks, res and the value returned
    commanded,         \* the angle passed by the most recent Servo_SetAngle
                       \* call for each servo channel
    scan,              \* the argument and the locals of the last observed
                       \* call of SPOT_Detect_RGB565_Centroid, and the pixels
                       \* its step 2 read
    g_jpeg_data_len,   \* volatile uint32_t g_jpeg_data_len (main.c), in words
    dma_en,            \* bit EN of DMA2_Stream1->CR
    dma_write          \* the words <<first, last + 1>> of g_jpeg_data_buf
                       \* that the interrupt handlers wrote last in the
                       \* current capture, <<>> before its first write

vars == <<config, state, current_mode, pan_invert_flag, tilt_invert_flag,
          spot_result, bright_threshold, last_x, last_y, init_frames,
          lost_count, det_op, centroid, successes, servo_calls, op, run, moves,
          g_jpeg_data_ok, loop_pc, ticks_on_result, rgb565, brightness,
          servo_center_offset, servo_angle_min, servo_angle_max, compare,
          g_esp8266_rx_buf, send_cmd, scan, commanded, g_jpeg_data_len,
          dma_en, dma_write>>

\* the state of esp8266.h
wifi == <<g_esp8266_rx_buf, send_cmd>>

\* the calibration of Servo.c
servo == <<servo_center_offset, servo_angle_min, servo_angle_max>>

\* one pixel conversion observed on its own
conversion == <<rgb565, brightness>>

\* the capture of one frame into g_jpeg_data_buf
capture == <<g_jpeg_data_len, dma_en, dma_write>>

\* the state of main.c
mainloop == <<g_jpeg_data_ok, loop_pc, ticks_on_result, capture>>

\* the state outside servo_track.c, spot_detect.c and the compare registers
periphery == <<servo, conversion, mainloop, wifi>>

ctrl == <<config, state, current_mode, pan_invert_flag, tilt_invert_flag>>

\* the state of spot_detect.c other than spot_result
locator == <<bright_threshold, last_x, last_y, init_frames, lost_count,
             det_op, centroid, successes, scan>>

(***************************************************************************)
(* Units and bounds                                                        *)
(***************************************************************************)
\* grid values per degree of a float angle
AngleScale == 100
\* grid values per unit of a float gain
FactorScale == 100

\* cap on state.lost_frames (uint32_t in the code)
MaxLost == 33
\* commands (ManualControl, SetAngles, parameter setters) plus committed
\* moves of ServoTrack_Process explored in one behaviour
MaxMoves == 2
\* cap on state.lost_frames while a return to center is followed to its end
RampMaxLost == 60
\* successful locate calls explored after each SPOT_Detect_Reset
MaxSuccesses == 11

Deg(d) == d * AngleScale

SERVO_MODE_MANUAL == "MANUAL"
SERVO_MODE_AUTO_TRACK == "AUTO_TRACK"
Modes == {SERVO_MODE_MANUAL, SERVO_MODE_AUTO_TRACK}

(***************************************************************************)
(* Input domains                                                           *)
(***************************************************************************)
InitArgs == {<<0, 1, 320, 240>>}
\* SPOT_Detect_SetCenter arguments: a point beyond the right edge of the
\* frame, 240 pixels from the image center (the result starts at the corner
\* (0,0), 200 pixels from the center)
CenterArgs == {<<400, 120>>}
\* ServoTrack_ManualControl arguments (degrees)
ManualArgs == {<<60, -100>>}
\* ServoTrack_SetAngles arguments (degrees)
AngleArgs == {<<-10, 200>>, <<45, 120>>}
\* ServoTrack_SetSmoothFactor arguments (1/FactorScale)
SmoothArgs == {-50, 200}
\* ServoTrack_SetDeadZone arguments (pixels): a radius that has (400,120) on
\* its rim and (0,0) inside
DeadZoneArgs == {240}
\* ServoTrack_SetMinAngleChange arguments (1/AngleScale degrees)
MinChangeArgs == {-100}
\* parameter-setter arguments explored with the setters alone: values below,
\* at, inside and above the accepted ranges
ConfigSmoothArgs == {-50, 0, 55, FactorScale, 200}
ConfigMinChangeArgs == {-100, 0, 250}
ConfigDeadZoneArgs == {0, 240, 20000}
\* SPOT_Detect_SetCenter arguments explored with the setters: the image
\* center
ImageCenterArgs == {<<160, 120>>}
\* ServoTrack_SetAxisInvert arguments
InvertArgs == {<<1, 7>>}
\* ServoTrack_SetAxisInvert arguments explored with automatic tracking alone
TrackInvertArgs == {<<1, 0>>, <<0, 7>>, <<0, 0>>}
\* SPOT_Detect_SetFound arguments
FoundArgs == {0, 5}
\* angle pairs (degrees) held when the spot is lost for good: positions that
\* ServoTrack_SetAngles and ServoTrack_ManualControl can leave
RampStartArgs == {<<0, 180>>, <<45, 120>>, <<90, 90>>, <<150, 0>>, <<89, 91>>}

(***************************************************************************)
(* Arithmetic helpers                                                      *)
(***************************************************************************)
\* n/d rounded to the nearest integer (d > 0): the rounding of a float store
RoundDiv(n, d) == (2 * n + d) \div (2 * d)

\* fabsf
fabsf(a) == IF a < 0 THEN -a ELSE a

(***************************************************************************)
(* servo_track.c: internal functions                                       *)
(***************************************************************************)
limit_angle_nohigh(angle) == IF angle < 0 THEN 0 ELSE angle

limit_angle_nolow(angle) == IF angle > Deg(180) THEN Deg(180) ELSE angle

\* limit_angle: clamp to 0..180 degrees
limit_angle(angle) ==
    IF angle < 0 THEN 0
    ELSE IF angle > Deg(180) THEN Deg(180)
    ELSE angle

\* *pan / *tilt of coord_to_angles before the axis inversion
PanOf(x, cfg) ==
    Deg(90) + RoundDiv((2 * x - cfg.img_width) * Deg(90), cfg.img_width)

TiltOf(y, cfg) ==
    Deg(90) + RoundDiv((2 * y - cfg.img_height) * Deg(70), cfg.img_height)

coord_to_angles_noinvert(x, y, cfg, pinv, tinv) ==
    [pan  |-> PanOf(x, cfg),
     tilt |-> IF tinv = 1 THEN Deg(180) - TiltOf(y, cfg) ELSE TiltOf(y, cfg)]

coord_to_angles(x, y, cfg, pinv, tinv) ==
    [pan  |-> IF pinv = 1 THEN Deg(180) - PanOf(x, cfg) ELSE PanOf(x, cfg),
     tilt |-> IF tinv = 1 THEN Deg(180) - TiltOf(y, cfg) ELSE TiltOf(y, cfg)]

in_dead_zone_strict(x, y, cfg) ==
    (2 * x - cfg.img_width) * (2 * x - cfg.img_width)
      + (2 * y - cfg.img_height) * (2 * y - cfg.img_height)
        < 4 * cfg.dead_zone * cfg.dead_zone

\* distance <= dead_zone, with distance = sqrtf(dx*dx + dy*dy) and
\* dx = x - img_width/2.0f, dy = y - img_height/2.0f
in_dead_zone(x, y, cfg) ==
    (2 * x - cfg.img_width) * (2 * x - cfg.img_width)
      + (2 * y - cfg.img_height) * (2 * y - cfg.img_height)
        <= 4 * cfg.dead_zone * cfg.dead_zone

\* the second call passes the pan angle
ServoCalls_copied(cfg, st) ==
    << <<cfg.pan_channel, st.pan_angle>>, <<cfg.tilt_channel, st.pan_angle>> >>

\* the two Servo_SetAngle calls that follow every committed angle pair
ServoCalls(cfg, st) ==
    << <<cfg.pan_channel, st.pan_angle>>, <<cfg.tilt_channel, st.tilt_angle>> >>

ProcessEnabled_always(mode) == TRUE

\* if(current_mode != SERVO_MODE_AUTO_TRACK) return;
ProcessEnabled(mode) == mode = SERVO_MODE_AUTO_TRACK

\* a filter that steps twice as far
Smooth_doubled(old, target, factor) ==
    old + 2 * RoundDiv((target - old) * factor, FactorScale)

\* old * (1.0f - factor) + target * factor, stored in a float
Smooth(old, target, factor) ==
    RoundDiv(old * (FactorScale - factor) + target * factor, FactorScale)

MoveNeeded_both(pan_delta, tilt_delta, threshold) ==
    pan_delta >= threshold /\ tilt_delta >= threshold

\* pan_delta >= threshold || tilt_delta >= threshold
MoveNeeded(pan_delta, tilt_delta, threshold) ==
    pan_delta >= threshold \/ tilt_delta >= threshold

LostTimeout_late == 30 + 1

\* if(state.lost_frames >= 30 && !state.returning_to_center)
LostTimeout == 30
ReturnSpeed_slow == FactorScale \div 10

\* return_speed = 0.25f
ReturnSpeed == FactorScale \div 4
ReturnMinDelta_coarse == AngleScale
ReturnMinDelta_zero == 0 * AngleScale

\* if(pan_delta >= 0.1f || tilt_delta >= 0.1f)
ReturnMinDelta == AngleScale \div 10

ProcessFound_keeplost(st, cfg, sr, pinv, tinv) ==
    LET tgt == coord_to_angles(sr.x, sr.y, cfg, pinv, tinv)
        new_pan == limit_angle(Smooth(st.pan_angle, tgt.pan, cfg.smooth_factor))
        new_tilt == limit_angle(Smooth(st.tilt_angle, tgt.tilt, cfg.smooth_factor))
        pan_delta == fabsf(new_pan - st.pan_angle)
        tilt_delta == fabsf(new_tilt - st.tilt_angle)
        moved == /\ ~in_dead_zone(sr.x, sr.y, cfg)
                 /\ MoveNeeded(pan_delta, tilt_delta, cfg.min_angle_change)
    IN  [moved |-> moved,
         st |-> [st EXCEPT !.target_x = sr.x,
                           !.target_y = sr.y,
                           !.pan_angle = IF moved THEN new_pan ELSE @,
                           !.tilt_angle = IF moved THEN new_tilt ELSE @,
                           !.tracking = 1,
                           !.returning_to_center = 0]]

\* ServoTrack_Process, branch if(SPOT_Detect_IsFound())
ProcessFound(st, cfg, sr, pinv, tinv) ==
    LET tgt == coord_to_angles(sr.x, sr.y, cfg, pinv, tinv)
        new_pan == limit_angle(Smooth(st.pan_angle, tgt.pan, cfg.smooth_factor))
        new_tilt == limit_angle(Smooth(st.tilt_angle, tgt.tilt, cfg.smooth_factor))
        pan_delta == fabsf(new_pan - st.pan_angle)
        tilt_delta == fabsf(new_tilt - st.tilt_angle)
        moved == /\ ~in_dead_zone(sr.x, sr.y, cfg)
                 /\ MoveNeeded(pan_delta, tilt_delta, cfg.min_angle_change)
    IN  [moved |-> moved,
         st |-> [st EXCEPT !.target_x = sr.x,
                           !.target_y = sr.y,
                           !.pan_angle = IF moved THEN new_pan ELSE @,
                           !.tilt_angle = IF moved THEN new_tilt ELSE @,
                           !.tracking = 1,
                           !.lost_frames = 0,
                           !.returning_to_center = 0]]

\* the else branch ramping toward the center from the first lost tick on
ProcessLost_eager(st) ==
    LET lost == st.lost_frames + 1
        returning == IF lost >= LostTimeout /\ st.returning_to_center = 0
                     THEN 1 ELSE st.returning_to_center
        new_pan == Smooth(st.pan_angle, Deg(90), ReturnSpeed)
        new_tilt == Smooth(st.tilt_angle, Deg(90), ReturnSpeed)
        pan_delta == fabsf(new_pan - st.pan_angle)
        tilt_delta == fabsf(new_tilt - st.tilt_angle)
        moved == MoveNeeded(pan_delta, tilt_delta, ReturnMinDelta)
    IN  [moved |-> moved,
         st |-> [st EXCEPT !.lost_frames = lost,
                           !.returning_to_center = returning,
                           !.pan_angle = IF moved THEN new_pan ELSE @,
                           !.tilt_angle = IF moved THEN new_tilt ELSE @,
                           !.tracking = 0]]

ProcessLost_nocount(st) ==
    [moved |-> FALSE, st |-> [st EXCEPT !.tracking = 0]]

ProcessLost_keeptracking(st) ==
    LET lost == st.lost_frames + 1
        returning == IF lost >= LostTimeout /\ st.returning_to_center = 0
                     THEN 1 ELSE st.returning_to_center
        new_pan == Smooth(st.pan_angle, Deg(90), ReturnSpeed)
        new_tilt == Smooth(st.tilt_angle, Deg(90), ReturnSpeed)
        pan_delta == fabsf(new_pan - st.pan_angle)
        tilt_delta == fabsf(new_tilt - st.tilt_angle)
        moved == /\ returning = 1
                 /\ MoveNeeded(pan_delta, tilt_delta, ReturnMinDelta)
    IN  [moved |-> moved,
         st |-> [st EXCEPT !.lost_frames = lost,
                           !.returning_to_center = returning,
                           !.pan_angle = IF moved THEN new_pan ELSE @,
                           !.tilt_angle = IF moved THEN new_tilt ELSE @]]

\* ServoTrack_Process, else branch (spot lost)
ProcessLost(st) ==
    LET lost == st.lost_frames + 1
        returning == IF lost >= LostTimeout /\ st.returning_to_center = 0
                     THEN 1 ELSE st.returning_to_center
        new_pan == Smooth(st.pan_angle, Deg(90), ReturnSpeed)
        new_tilt == Smooth(st.tilt_angle, Deg(90), ReturnSpeed)
        pan_delta == fabsf(new_pan - st.pan_angle)
        tilt_delta == fabsf(new_tilt - st.tilt_angle)
        moved == /\ returning = 1
                 /\ MoveNeeded(pan_delta, tilt_delta, ReturnMinDelta)
    IN  [moved |-> moved,
         st |-> [st EXCEPT !.lost_frames = lost,
                           !.returning_to_center = returning,
                           !.pan_angle = IF moved THEN new_pan ELSE @,
                           !.tilt_angle = IF moved THEN new_tilt ELSE @,
                           !.tracking = 0]]

(***************************************************************************)
(* esp8266.h: esp8266_send_cmd.  A call is followed through its polling    *)
(* loop; one pass of the loop takes the 10 ticks of its delay_ms(10).      *)
(***************************************************************************)
\* the value of a char * argument that is NULL
NULL == <<>>
\* no value returned yet
NoReturn == -1
\* ack arguments: NULL and "OK"
AckArgs == {NULL, <<"O", "K">>}
\* received bytes
RxBytes == {"O", "K", "x"}
\* waittime arguments (ms)
WaitArgs == {20, 40}
\* sizeof(g_esp8266_rx_buf)
RxBufSize == 512

NoCall ==
    [pc |-> "idle", cmd_null |-> FALSE, ack |-> NULL, waittime |-> 0,
     elapsed |-> 0, res |-> 0, ret |-> NoReturn]

\* strstr(buf, ack) != NULL
Contains(buf, ack) ==
    \E i \in 1..(Len(buf) - Len(ack) + 1) :
        SubSeq(buf, i, i + Len(ack) - 1) = ack

\* the value of res when the polling loop ends at its condition
\* (uint8_t res = 0; no assignment on that path)
TimeoutRes(res) == res

\* esp8266_send_cmd up to the polling loop
esp8266_send_cmd_call(cmd_null, ack, waittime) ==
    /\ send_cmd.pc = "idle"
    /\ IF cmd_null
       THEN /\ send_cmd' = [NoCall EXCEPT !.cmd_null = TRUE, !.ack = ack,
                                          !.waittime = waittime, !.ret = 1]
            /\ UNCHANGED g_esp8266_rx_buf
       ELSE /\ g_esp8266_rx_buf' = <<>>
            /\ send_cmd' = [NoCall EXCEPT
                              !.ack = ack, !.waittime = waittime,
                              !.pc = IF ack = NULL THEN "idle" ELSE "wait",
                              !.ret = IF ack = NULL THEN 0 ELSE NoReturn]
    /\ UNCHANGED <<servo, conversion, mainloop, compare, commanded, locator,
                   ctrl,
                   spot_result, servo_calls, op, run, moves>>

\* one pass of while ((HAL_GetTick() - start_time) < waittime): a byte is
\* received or not, then the buffer is searched for ack
esp8266_send_cmd_poll ==
    /\ send_cmd.pc = "wait"
    /\ send_cmd.elapsed < send_cmd.waittime
    /\ \E received \in {<<>>} \cup {<<b>> : b \in RxBytes} :
         LET buf == IF Len(g_esp8266_rx_buf) < RxBufSize - 1
                    THEN g_esp8266_rx_buf \o received
                    ELSE g_esp8266_rx_buf
         IN  /\ g_esp8266_rx_buf' = buf
             /\ send_cmd' =
                  IF Contains(buf, send_cmd.ack)
                  THEN [send_cmd EXCEPT !.pc = "idle", !.res = 0, !.ret = 0]
                  ELSE [send_cmd EXCEPT !.elapsed = @ + 10]
    /\ UNCHANGED <<servo, conversion, mainloop, compare, commanded, locator,
                   ctrl,
                   spot_result, servo_calls, op, run, moves>>

\* the loop condition fails: if (res != 0) { ... } return res;
esp8266_send_cmd_timeout ==
    /\ send_cmd.pc = "wait"
    /\ send_cmd.elapsed >= send_cmd.waittime
    /\ send_cmd' = [send_cmd EXCEPT !.pc = "idle",
                                    !.ret = TimeoutRes(send_cmd.res)]
    /\ UNCHANGED <<g_esp8266_rx_buf, servo, conversion, mainloop, compare,
                   commanded,
                   locator, ctrl, spot_result, servo_calls, op, run, moves>>

(***************************************************************************)
(* Servo.c: from an angle to the compare value of the PWM timer.  The      *)
(* float variable mapped_angle is kept on the angle grid; normalized is    *)
(* kept exact.                                                             *)
(***************************************************************************)
PWM_MIN == 500
PWM_MID == 1500
PWM_MAX == 2500
Channels == {0, 1}

\* Servo_SetPulse: the compare registers after the call
Servo_SetPulse(cmp, ch, pulse_us) ==
    LET p1 == IF pulse_us < PWM_MIN THEN PWM_MIN ELSE pulse_us
        p2 == IF p1 > PWM_MAX THEN PWM_MAX ELSE p1
    IN  IF ch \in Channels THEN [cmp EXCEPT ![ch] = p2] ELSE cmp

\* pulse of Servo_SetAngle with normalized taken over 0..180 degrees
\* whatever the range
PulseOf_fixedspan(angle, offset, min_angle, max_angle) ==
    LET logical == IF angle < 0 THEN 0
                   ELSE IF angle > Deg(180) THEN Deg(180) ELSE angle
        span == max_angle - min_angle
        mapped0 == min_angle + RoundDiv(span * logical, Deg(180)) + offset
        mapped == IF mapped0 < min_angle THEN min_angle
                  ELSE IF mapped0 > max_angle THEN max_angle ELSE mapped0
    IN  (PWM_MIN
           + (2 * (PWM_MAX - PWM_MIN) * mapped + Deg(180))
               \div (2 * Deg(180))) % 65536

\* pulse of Servo_SetAngle:
\* (uint16_t)(PWM_MIN + (PWM_MAX - PWM_MIN) * normalized + 0.5f)
PulseOf(angle, offset, min_angle, max_angle) ==
    LET logical == IF angle < 0 THEN 0
                   ELSE IF angle > Deg(180) THEN Deg(180) ELSE angle
        span0 == max_angle - min_angle
        span == IF span0 <= 0 THEN Deg(180) ELSE span0
        max_range == IF span0 <= 0 THEN min_angle + span ELSE max_angle
        mapped0 == min_angle + RoundDiv(span * logical, Deg(180)) + offset
        mapped == IF mapped0 < min_angle THEN min_angle
                  ELSE IF mapped0 > max_range THEN max_range ELSE mapped0
    IN  (PWM_MIN
           + (2 * (PWM_MAX - PWM_MIN) * (mapped - min_angle) + span)
               \div (2 * span)) % 65536

\* Servo_SetAngle(ch, angle): the compare registers after the call
SetAngleOn(cmp, ch, angle) ==
    IF ch >= 2 THEN cmp
    ELSE Servo_SetPulse(cmp, ch,
                        PulseOf(angle, servo_center_offset[ch],
                                servo_angle_min[ch], servo_angle_max[ch]))

\* the compare registers after a sequence of Servo_SetAngle calls
RECURSIVE Actuate(_, _)
Actuate(calls, cmp) ==
    IF calls = <<>> THEN cmp
    ELSE Actuate(Tail(calls), SetAngleOn(cmp, Head(calls)[1], Head(calls)[2]))

\* the angle arguments of the most recent Servo_SetAngle call per channel
\* after a sequence of calls
RECURSIVE Commanded(_, _)
Commanded(calls, cmd) ==
    IF calls = <<>> THEN cmd
    ELSE Commanded(Tail(calls),
                   IF Head(calls)[1] \in Channels
                   THEN [cmd EXCEPT ![Head(calls)[1]] = Head(calls)[2]]
                   ELSE cmd)

\* an operation of servo_track.c issues calls
Issue(calls) ==
    /\ servo_calls' = calls
    /\ compare' = Actuate(calls, compare)
    /\ commanded' = Commanded(calls, commanded)

\* Servo_SetAngle arguments: channel and angle (1/AngleScale degrees)
ServoChannelArgs == {0, 1, 2}
ServoAngleArgs == {Deg(-10), 0, Deg(90), Deg(180), Deg(200)}
\* Servo_SetCenterOffset arguments (1/AngleScale degrees)
ServoOffsetArgs == {0, Deg(-100), Deg(30)}
\* Servo_SetAngleRange arguments (degrees): a range, an empty and a
\* reversed one
ServoRangeArgs == {<<45, 135>>, <<90, 90>>, <<135, 45>>}

Servo_SetAngle(ch, angle) ==
    /\ compare' = SetAngleOn(compare, ch, angle)
    /\ commanded' = Commanded(<< <<ch, angle>> >>, commanded)
    /\ UNCHANGED <<periphery, locator, ctrl, spot_result, servo_calls, op,
                   run, moves>>

Servo_SetCenterOffset(ch, offset) ==
    /\ servo_center_offset' =
         IF ch < 2 THEN [servo_center_offset EXCEPT ![ch] = offset]
         ELSE servo_center_offset
    /\ UNCHANGED <<servo_angle_min, servo_angle_max, compare, commanded,
                   conversion,
                   mainloop, wifi, locator, ctrl, spot_result, servo_calls, op,
                   run, moves>>

Servo_SetAngleRange(ch, a) ==
    /\ IF ch < 2 /\ a[2] > a[1]
       THEN /\ servo_angle_min' = [servo_angle_min EXCEPT ![ch] = Deg(a[1])]
            /\ servo_angle_max' = [servo_angle_max EXCEPT ![ch] = Deg(a[2])]
       ELSE UNCHANGED <<servo_angle_min, servo_angle_max>>
    /\ UNCHANGED <<servo_center_offset, compare, commanded, conversion,
                   mainloop, wifi,
                   locator, ctrl, spot_result, servo_calls, op, run, moves>>

\* the initializers of Servo.c and the compare values that the two
\* Servo_SetAngle calls of the operation before the first step have written
ServoInit(calls) ==
    /\ servo_center_offset = [c \in Channels |-> 0]
    /\ servo_angle_min = [c \in Channels |-> 0]
    /\ servo_angle_max = [c \in Channels |-> Deg(180)]
    /\ compare = [c \in Channels |->
                    PulseOf(calls[c + 1][2], 0, 0, Deg(180))]
    /\ commanded = [c \in Channels |-> calls[c + 1][2]]
    /\ g_esp8266_rx_buf = <<>>
    /\ send_cmd = NoCall

(***************************************************************************)
(* servo_track.c: operations                                               *)
(***************************************************************************)
InitConfig(a) ==
    [pan_channel |-> a[1], tilt_channel |-> a[2],
     img_width |-> a[3], img_height |-> a[4],
     smooth_factor |-> (3 * FactorScale) \div 10,
     dead_zone |-> 10,
     min_angle_change |-> Deg(1)]

InitState(a) ==
    [pan_angle |-> Deg(90), tilt_angle |-> Deg(90),
     target_x |-> a[3] \div 2, target_y |-> a[4] \div 2,
     tracking |-> 0, lost_frames |-> 0, returning_to_center |-> 0]

ServoTrack_Init(a) ==
    /\ config' = InitConfig(a)
    /\ state' = InitState(a)
    /\ current_mode' = SERVO_MODE_MANUAL
    /\ Issue(ServoCalls(InitConfig(a), InitState(a)))
    /\ op' = "Init"
    /\ run' = 0
    /\ UNCHANGED <<periphery, locator, pan_invert_flag, tilt_invert_flag,
                   spot_result,
                   moves>>

EnterAutoTrack_keepflag(st) == [st EXCEPT !.lost_frames = 0]

\* ServoTrack_SetMode: if(mode == SERVO_MODE_AUTO_TRACK) { ... }
EnterAutoTrack(st) ==
    [st EXCEPT !.lost_frames = 0, !.returning_to_center = 0]

\* ServoTrack_SetMode without its if(current_mode != mode)
SetModeStep_unguarded(mode) ==
    /\ current_mode' = mode
    /\ state' = IF mode = SERVO_MODE_AUTO_TRACK
                THEN EnterAutoTrack(state)
                ELSE state
    /\ Issue(<<>>)
    /\ op' = "SetMode"
    /\ run' = 0
    /\ UNCHANGED <<locator, config, pan_invert_flag, tilt_invert_flag,
                   spot_result,
                   moves>>

\* the body of ServoTrack_SetMode
SetModeStep(mode) ==
    /\ current_mode' = mode
    /\ state' = IF current_mode # mode /\ mode = SERVO_MODE_AUTO_TRACK
                THEN EnterAutoTrack(state)
                ELSE state
    /\ Issue(<<>>)
    /\ op' = "SetMode"
    /\ run' = 0
    /\ UNCHANGED <<locator, config, pan_invert_flag, tilt_invert_flag,
                   spot_result,
                   moves>>

ServoTrack_SetMode(mode) == SetModeStep(mode) /\ UNCHANGED periphery

\* the body of ServoTrack_Process; max_lost caps state.lost_frames, and with
\* budgeted set a committed move is counted in moves
ProcessStep(max_lost, budgeted) ==
    /\ IF ~ProcessEnabled(current_mode)
       THEN /\ op' = "Process.return"
            /\ Issue(<<>>)
            /\ run' = 0
            /\ UNCHANGED <<state, moves>>
       ELSE IF spot_result.found # 0
       THEN LET r == ProcessFound(state, config, spot_result,
                                  pan_invert_flag, tilt_invert_flag)
            IN  /\ (budgeted /\ r.moved) => moves < MaxMoves
                /\ state' = r.st
                /\ Issue(IF r.moved THEN ServoCalls(config, r.st) ELSE <<>>)
                /\ moves' = IF budgeted /\ r.moved THEN moves + 1 ELSE moves
                /\ op' = "Process.found"
                /\ run' = 0
       ELSE LET r == ProcessLost(state)
            IN  /\ state.lost_frames < max_lost
                /\ (budgeted /\ r.moved) => moves < MaxMoves
                /\ state' = r.st
                /\ Issue(IF r.moved THEN ServoCalls(config, r.st) ELSE <<>>)
                /\ op' = "Process.lost"
                /\ run' = IF state.lost_frames = 0
                             /\ state.returning_to_center = 0
                          THEN 1
                          ELSE IF run > 0 THEN run + 1 ELSE 0
                /\ moves' = IF budgeted /\ r.moved THEN moves + 1 ELSE moves
    /\ UNCHANGED <<locator, config, current_mode, pan_invert_flag,
                   tilt_invert_flag,
                   spot_result>>

ServoTrack_Process == ProcessStep(MaxLost, TRUE) /\ UNCHANGED periphery

\* ServoTrack_Process with every committed move explored, up to RampMaxLost
\* not-found ticks
ServoTrack_Process_Ramp ==
    ProcessStep(RampMaxLost, FALSE) /\ UNCHANGED periphery

\* ServoTrack_ManualControl taking its arguments as absolute angles
ManualControlStep_absolute(a) ==
    /\ moves < MaxMoves
    /\ LET st == [state EXCEPT
                    !.pan_angle = limit_angle(Deg(a[1])),
                    !.tilt_angle = limit_angle(Deg(a[2]))]
       IN  /\ state' = st
           /\ Issue(ServoCalls(config, st))
    /\ op' = "ManualControl"
    /\ run' = 0
    /\ moves' = moves + 1
    /\ UNCHANGED <<locator, config, current_mode, pan_invert_flag,
                   tilt_invert_flag,
                   spot_result>>

\* the body of ServoTrack_ManualControl
ManualControlStep(a) ==
    /\ moves < MaxMoves
    /\ LET st == [state EXCEPT
                    !.pan_angle = limit_angle(@ + Deg(a[1])),
                    !.tilt_angle = limit_angle(@ + Deg(a[2]))]
       IN  /\ state' = st
           /\ Issue(ServoCalls(config, st))
    /\ op' = "ManualControl"
    /\ run' = 0
    /\ moves' = moves + 1
    /\ UNCHANGED <<locator, config, current_mode, pan_invert_flag,
                   tilt_invert_flag,
                   spot_result>>

ServoTrack_ManualControl(a) == ManualControlStep(a) /\ UNCHANGED periphery

ServoTrack_SetAngles(a) ==
    /\ moves < MaxMoves
    /\ LET st == [state EXCEPT
                    !.pan_angle = limit_angle(Deg(a[1])),
                    !.tilt_angle = limit_angle(Deg(a[2]))]
       IN  /\ state' = st
           /\ Issue(ServoCalls(config, st))
    /\ op' = "SetAngles"
    /\ run' = 0
    /\ moves' = moves + 1
    /\ UNCHANGED <<periphery, locator, config, current_mode, pan_invert_flag,
                   tilt_invert_flag,
                   spot_result>>

ServoTrack_Reset ==
    /\ LET st == [state EXCEPT !.pan_angle = Deg(90), !.tilt_angle = Deg(90),
                               !.tracking = 0, !.lost_frames = 0]
       IN  /\ state' = st
           /\ Issue(ServoCalls(config, st))
    /\ op' = "Reset"
    /\ run' = 0
    /\ UNCHANGED <<periphery, locator, config, current_mode, pan_invert_flag,
                   tilt_invert_flag,
                   spot_result, moves>>

ServoTrack_SetSmoothFactor_noclamp(factor) ==
    /\ moves < MaxMoves
    /\ config' = [config EXCEPT !.smooth_factor = factor]
    /\ moves' = moves + 1
    /\ UNCHANGED <<periphery, locator, state, current_mode, pan_invert_flag,
                   tilt_invert_flag,
                   spot_result, servo_calls, compare, commanded, op, run>>

ServoTrack_SetSmoothFactor(factor) ==
    /\ moves < MaxMoves
    /\ config' = [config EXCEPT !.smooth_factor =
                    IF factor < 0 THEN 0
                    ELSE IF factor > FactorScale THEN FactorScale
                    ELSE factor]
    /\ moves' = moves + 1
    /\ UNCHANGED <<periphery, locator, state, current_mode, pan_invert_flag,
                   tilt_invert_flag,
                   spot_result, servo_calls, compare, commanded, op, run>>

ServoTrack_SetDeadZone(zone) ==
    /\ moves < MaxMoves
    /\ config' = [config EXCEPT !.dead_zone = zone]
    /\ moves' = moves + 1
    /\ UNCHANGED <<periphery, locator, state, current_mode, pan_invert_flag,
                   tilt_invert_flag,
                   spot_result, servo_calls, compare, commanded, op, run>>

ServoTrack_SetMinAngleChange(threshold) ==
    /\ moves < MaxMoves
    /\ config' = [config EXCEPT !.min_angle_change =
                    IF threshold < 0 THEN 0 ELSE threshold]
    /\ moves' = moves + 1
    /\ UNCHANGED <<periphery, locator, state, current_mode, pan_invert_flag,
                   tilt_invert_flag,
                   spot_result, servo_calls, compare, commanded, op, run>>

ServoTrack_SetAxisInvert(a) ==
    /\ moves < MaxMoves
    /\ pan_invert_flag' = (IF a[1] # 0 THEN 1 ELSE 0)
    /\ tilt_invert_flag' = (IF a[2] # 0 THEN 1 ELSE 0)
    /\ moves' = moves + 1
    /\ UNCHANGED <<periphery, locator, config, state, current_mode,
                   spot_result,
                   servo_calls, compare, commanded, op,
                   run>>

(***************************************************************************)
(* spot_detect.c: injection of a detection result                          *)
(***************************************************************************)
SPOT_Detect_SetCenter(a) ==
    /\ spot_result' = [spot_result EXCEPT !.x = a[1], !.y = a[2]]
    /\ UNCHANGED <<periphery, locator, ctrl, servo_calls, compare, commanded,
                   op, run,
                   moves>>

SPOT_Detect_SetFound(found) ==
    /\ spot_result' = [spot_result EXCEPT !.found = IF found # 0 THEN 1 ELSE 0]
    /\ UNCHANGED <<periphery, locator, ctrl, servo_calls, compare, commanded,
                   op, run,
                   moves>>

(***************************************************************************)
(* spot_detect.c: frames                                                   *)
(*                                                                         *)
(* A raw frame is a w x h array of RGB565 words that holds one rectangle   *)
(* of the word fg, sx x sy pixels with its top left pixel at (x0, y0), on  *)
(* a background of the word bg.  A compressed buffer is an array of len    *)
(* bytes: b0 and b1 first, the byte val at the indexes from..to and the    *)
(* byte fill everywhere else; null stands for a NULL pointer.              *)
(***************************************************************************)
\* rgb_buf[y * img_w + x]; a frame given word by word carries its words in
\* the field buf
Pixel(f, x, y) ==
    IF "buf" \in DOMAIN f THEN f.buf[y * f.w + x + 1]
    ELSE IF /\ x >= f.x0 /\ x < f.x0 + f.sx
            /\ y >= f.y0 /\ y < f.y0 + f.sy
    THEN f.fg ELSE f.bg

Byte(j, i) ==
    IF i = 0 THEN j.b0
    ELSE IF i = 1 THEN j.b1
    ELSE IF i >= j.from /\ i <= j.to THEN j.val
    ELSE j.fill

Rect(w, h, fg, x0, y0, sx, sy) ==
    [w |-> w, h |-> h, bg |-> 0, fg |-> fg,
     x0 |-> x0, y0 |-> y0, sx |-> sx, sy |-> sy]

\* RGB565 white (brightness 255) and a grey of brightness 121
White == 65535
Grey == 15 * 2048 + 30 * 32 + 15

\* the frames handed to SPOT_Detect_RGB565_Centroid, all FrameW x FrameH
FrameW == 320
FrameH == 40
DarkFrame == Rect(FrameW, FrameH, 0, 0, 0, 0, 0)
\* a 5 x 5 square: fewer than 30 pixels
SmallFrame == Rect(FrameW, FrameH, White, 50, 10, 5, 5)
\* an 8 x 8 grey square: a score below CENTROID_SCORE_THRESHOLD
DimFrame == Rect(FrameW, FrameH, Grey, 200, 20, 8, 8)
\* an 11 x 11 square centered at (10, 15)
Square11 == Rect(FrameW, FrameH, White, 5, 10, 11, 11)
\* a 20 x 20 square centered at (109.5, 19.5)
Square20 == Rect(FrameW, FrameH, White, 100, 10, 20, 20)
\* a 2 x 15 bar on the left edge of the frame
EdgeBar == Rect(FrameW, FrameH, White, 0, 0, 2, 15)

RgbFrames == {DarkFrame, SmallFrame, DimFrame, Square11, Square20, EdgeBar}

\* a w x h frame given by its words in row-major order
Grid(w, h, buf) == [w |-> w, h |-> h, buf |-> buf]

\* the frames of the observed calls: every 2 x 2 frame of grey and white
\* pixels, one white pixel at and away from each border of a 40 x 40 frame,
\* and a white 6 x 6 square in such a frame
GridFrames == {Grid(2, 2, buf) : buf \in [1..4 -> {Grey, White}]}
BorderFrames ==
    {Rect(40, 40, White, x0, y0, 1, 1) : x0 \in {0, 24, 39},
                                         y0 \in {0, 24, 39}}
Square6 == Rect(40, 40, White, 24, 10, 6, 6)
ScanFrames == GridFrames \cup BorderFrames \cup {Square6}

Stream(null, len, b0, b1, fill, from, to, val) ==
    [null |-> null, len |-> len, b0 |-> b0, b1 |-> b1, fill |-> fill,
     from |-> from, to |-> to, val |-> val]

\* the buffers handed to SPOT_Detect_Process
NullStream == Stream(TRUE, 0, 0, 0, 0, 0, 0, 0)
ShortStream == Stream(FALSE, 150, 255, 216, 16, 2, 1, 0)
NoHeaderStream == Stream(FALSE, 520, 0, 0, 16, 200, 500, 250)
DarkStream == Stream(FALSE, 520, 255, 216, 16, 2, 1, 0)
BrightStream == Stream(FALSE, 520, 255, 216, 16, 200, 500, 250)

JpegStreams == {NullStream, ShortStream, NoHeaderStream, DarkStream,
                BrightStream}

\* SPOT_Detect_SetBrightThreshold arguments
ThresholdArgs == {100}

(***************************************************************************)
(* spot_detect.c: the two locate computations                              *)
(***************************************************************************)
\* units of a float position per pixel
PosScale == 256

\* a score floor ten times lower
CENTROID_SCORE_THRESHOLD_low == 1000000 \div 10

CENTROID_SCORE_THRESHOLD == 1000000
LOCAL_WINDOW_SIZE == 30
JPEG_SAMPLE_STEP == 16
JPEG_SKIP_HEADER == 100
JPEG_BRIGHT_THRESHOLD == 200

SetMax(S) == CHOOSE m \in S : \A n \in S : n <= m
SetMin(S) == CHOOSE m \in S : \A n \in S : m <= n

\* rgb565_to_brightness without the replication of the high bits
rgb565_to_brightness_shiftonly(sample) ==
    LET r5 == (sample \div 2048) % 32
        g6 == (sample \div 32) % 64
        b5 == sample % 32
    IN  ((77 * (r5 * 8) + 150 * (g6 * 4) + 29 * (b5 * 8)) \div 256) % 256

rgb565_to_brightness(sample) ==
    LET r5 == (sample \div 2048) % 32
        g6 == (sample \div 32) % 64
        b5 == sample % 32
        r == ((r5 * 8) % 256) + (r5 \div 4)
        g == ((g6 * 4) % 256) + (g6 \div 16)
        b == ((b5 * 8) % 256) + (b5 \div 4)
    IN  ((77 * r + 150 * g + 29 * b) \div 256) % 256

Brightness(f, x, y) == rgb565_to_brightness(Pixel(f, x, y))

\* if(brightness > max_brightness) with >= in place of >
Brighter_orequal(b, max_brightness) == b >= max_brightness

\* if(brightness > max_brightness)
Brighter(b, max_brightness) == b > max_brightness

\* one iteration of the inner loop of step 1, at pixel (x, y), entered with
\* max_brightness, max_x and max_y in m
ScanPixel(f, x, y, m) ==
    LET b == Brightness(f, x, y)
    IN  IF Brighter(b, m.brightness)
        THEN [brightness |-> b, x |-> x, y |-> y] ELSE m

\* the inner loop of step 1 over the pixels x..(x_end - 1) of row y, in
\* ascending x; the range is scanned as its lower half followed by its upper
\* half, the lower half being evaluated first, which keeps the nesting of
\* the evaluation logarithmic
RECURSIVE ScanRow(_, _, _, _, _)
ScanRow(f, x, x_end, y, m) ==
    IF x >= x_end THEN m
    ELSE IF x_end = x + 1 THEN ScanPixel(f, x, y, m)
    ELSE LET mid == (x + x_end) \div 2
             lower == ScanRow(f, x, mid, y, m)
         IN  IF lower = m THEN ScanRow(f, mid, x_end, y, m)
             ELSE ScanRow(f, mid, x_end, y, lower)

\* the outer loop of step 1 over the rows y..(y_end - 1), in ascending y,
\* halved in the same way
RECURSIVE ScanRows(_, _, _, _)
ScanRows(f, y, y_end, m) ==
    IF y >= y_end THEN m
    ELSE IF y_end = y + 1 THEN ScanRow(f, 0, f.w, y, m)
    ELSE LET mid == (y + y_end) \div 2
             upper == ScanRows(f, y, mid, m)
         IN  IF upper = m THEN ScanRows(f, mid, y_end, m)
             ELSE ScanRows(f, mid, y_end, upper)

\* step 1: max_brightness, max_x and max_y after the full-frame scan
GlobalMax(f) == ScanRows(f, 0, f.h, [brightness |-> 0, x |-> 0, y |-> 0])

\* step 1 tabulated over the frames explored
GlobalMaxOf == [f \in RgbFrames \cup ScanFrames |-> GlobalMax(f)]

\* the window with the column max_x + 15 and the row max_y + 15 included
Window_closed(f, mx, my) ==
    LET half == LOCAL_WINDOW_SIZE \div 2
    IN  [x_start |-> IF mx > half THEN mx - half ELSE 0,
         x_end   |-> IF mx + half + 1 < f.w THEN mx + half + 1 ELSE f.w,
         y_start |-> IF my > half THEN my - half ELSE 0,
         y_end   |-> IF my + half + 1 < f.h THEN my + half + 1 ELSE f.h]

\* win_x_start, win_x_end, win_y_start, win_y_end
Window(f, mx, my) ==
    LET half == LOCAL_WINDOW_SIZE \div 2
    IN  [x_start |-> IF mx > half THEN mx - half ELSE 0,
         x_end   |-> IF mx + half < f.w THEN mx + half ELSE f.w,
         y_start |-> IF my > half THEN my - half ELSE 0,
         y_end   |-> IF my + half < f.h THEN my + half ELSE f.h]

NoSums == [xs |-> 0, ys |-> 0, tw |-> 0, pc |-> 0]

\* the inner loop of step 2: the pixels x..(x_end - 1) of row y
RECURSIVE RowSums(_, _, _, _, _)
RowSums(f, core, x, x_end, y) ==
    IF x >= x_end THEN NoSums
    ELSE LET rest == RowSums(f, core, x + 1, x_end, y)
             b == Brightness(f, x, y)
             weight == b * b
         IN  IF b >= core
             THEN [xs |-> rest.xs + x * weight, ys |-> rest.ys + y * weight,
                   tw |-> rest.tw + weight, pc |-> rest.pc + 1]
             ELSE rest

\* the outer loop of step 2: the rows y..(y_end - 1) of the window
RECURSIVE WindowSums(_, _, _, _)
WindowSums(f, core, win, y) ==
    IF y >= win.y_end THEN NoSums
    ELSE LET rest == WindowSums(f, core, win, y + 1)
             row == RowSums(f, core, win.x_start, win.x_end, y)
         IN  [xs |-> rest.xs + row.xs, ys |-> rest.ys + row.ys,
              tw |-> rest.tw + row.tw, pc |-> rest.pc + row.pc]

\* core_threshold
CoreThreshold(max_brightness, threshold) ==
    LET core80 == ((max_brightness * 80) \div 100) % 256
    IN  IF core80 < threshold THEN threshold % 256 ELSE core80

\* SPOT_Detect_RGB565_Centroid up to the centroid: the exit taken and, when
\* all gates pass, centroid_x, centroid_y and pixel_count
Centroid(f, threshold) ==
    LET m == GlobalMaxOf[f]
        win == Window(f, m.x, m.y)
        core == CoreThreshold(m.brightness, threshold)
        sums == WindowSums(f, core, win, win.y_start)
    IN  IF m.brightness < threshold
        THEN [exit |-> "dark", x |-> 0, y |-> 0, count |-> 0]
        ELSE IF sums.pc < 30 \/ sums.tw = 0
        THEN [exit |-> "few", x |-> 0, y |-> 0, count |-> sums.pc]
        ELSE IF sums.tw < CENTROID_SCORE_THRESHOLD
        THEN [exit |-> "score", x |-> 0, y |-> 0, count |-> sums.pc]
        ELSE [exit |-> "found",
              x |-> (sums.xs \div sums.tw) % 65536,
              y |-> (sums.ys \div sums.tw) % 65536,
              count |-> sums.pc]

\* the pixels (x, y) that the loops of step 2 index as rgb_buf[y * img_w + x]
WindowReads(win) ==
    {<<x, y>> : x \in win.x_start..(win.x_end - 1),
                y \in win.y_start..(win.y_end - 1)}

NoWindow == [x_start |-> 0, x_end |-> 0, y_start |-> 0, y_end |-> 0]

\* no call observed yet
NoScan ==
    [rgb_buf |-> <<>>, max |-> [brightness |-> 0, x |-> 0, y |-> 0],
     win |-> NoWindow, reads |-> {}, core_threshold |-> 0,
     pixel_count |-> 0, total_weight |-> 0, result |-> <<>>]

\* the locals of one call of SPOT_Detect_RGB565_Centroid on the frame f when
\* it returns; step 2 is not reached when the first gate rejects the frame
Locals(f, threshold) ==
    LET m == GlobalMaxOf[f]
        dark == m.brightness < threshold
        win == IF dark THEN NoWindow ELSE Window(f, m.x, m.y)
        core == IF dark THEN 0 ELSE CoreThreshold(m.brightness, threshold)
        sums == IF dark THEN NoSums ELSE WindowSums(f, core, win, win.y_start)
    IN  [rgb_buf |-> f, max |-> m, win |-> win, reads |-> WindowReads(win),
         core_threshold |-> core, pixel_count |-> sums.pc,
         total_weight |-> sums.tw, result |-> Centroid(f, threshold)]

NoSamples == [max |-> 0, max_x |-> 0, max_y |-> 0, bright |-> 0, total |-> 0,
              wx |-> 0, wy |-> 0]

\* the sampling loop of SPOT_Detect_Process from index i on, after
\* sample_count samples, with the statistics acc gathered so far (the
\* uint32_t sums of the buffers explored stay far below 2^32)
RECURSIVE Samples(_, _, _, _, _, _)
Samples(j, img_w, img_h, i, sample_count, acc) ==
    IF ~(i < j.len - 1 /\ sample_count < 1000) THEN acc
    ELSE IF Byte(j, i) = 255 /\ Byte(j, i + 1) # 0 /\ Byte(j, i + 1) # 255
    THEN Samples(j, img_w, img_h, i + 1 + JPEG_SAMPLE_STEP, sample_count, acc)
    ELSE LET b == Byte(j, i)
             px == (i * img_w) \div j.len
             py == (i * img_h) \div j.len
             a1 == IF b > acc.max
                   THEN [acc EXCEPT !.max = b, !.max_x = px % 65536,
                                    !.max_y = py % 65536]
                   ELSE acc
             a2 == IF b >= JPEG_BRIGHT_THRESHOLD
                   THEN [a1 EXCEPT !.bright = @ + 1,
                                   !.total = @ + b,
                                   !.wx = @ + px * b,
                                   !.wy = @ + py * b]
                   ELSE a1
         IN  Samples(j, img_w, img_h, i + JPEG_SAMPLE_STEP, sample_count + 1, a2)

\* SPOT_Detect_Process up to the estimated position: the exit taken and,
\* when the gates pass, estimated_x, estimated_y and bright_sample_count
Estimate(j, img_w, img_h, threshold) ==
    IF j.null \/ j.len < JPEG_SKIP_HEADER + 100
    THEN [exit |-> "invalid", x |-> 0, y |-> 0, count |-> 0]
    ELSE IF Byte(j, 0) # 255 \/ Byte(j, 1) # 216
    THEN [exit |-> "header", x |-> 0, y |-> 0, count |-> 0]
    ELSE LET s == Samples(j, img_w, img_h, JPEG_SKIP_HEADER, 0, NoSamples)
             ex == IF s.total > 0 THEN (s.wx \div s.total) % 65536 ELSE s.max_x
             ey == IF s.total > 0 THEN (s.wy \div s.total) % 65536 ELSE s.max_y
         IN  IF s.max < threshold \/ s.bright < 10
             THEN [exit |-> "dark", x |-> 0, y |-> 0, count |-> s.bright]
             ELSE [exit |-> "found",
                   x |-> IF ex >= img_w THEN img_w - 1 ELSE ex,
                   y |-> IF ey >= img_h THEN img_h - 1 ELSE ey,
                   count |-> s.bright]

\* the values bright_threshold takes
Thresholds == {240} \cup ThresholdArgs

\* the two computations tabulated over the frames and thresholds explored
CentroidOf == [f \in RgbFrames |-> [t \in Thresholds |-> Centroid(f, t)]]
LocalsOf == [f \in ScanFrames |-> [t \in Thresholds |-> Locals(f, t)]]
EstimateOf ==
    [j \in JpegStreams |-> [t \in Thresholds |->
                               Estimate(j, FrameW, FrameH, t)]]

(***************************************************************************)
(* spot_detect.c: operations                                               *)
(***************************************************************************)
\* if(init_frames < 10)
InitPhaseFrames_short == 10 - 1

InitPhaseFrames == 10
\* alpha of SPOT_Detect_RGB565_Centroid and of SPOT_Detect_Process
RgbAlpha == (3 * FactorScale) \div 4
JpegAlpha == (7 * FactorScale) \div 10

Mirror_offbyone(img_w, x) == img_w - x

Mirror_none(img_w, x) == x

\* centroid_x = img_w - 1 - centroid_x
Mirror(img_w, x) == img_w - 1 - x

NotFound_keepintensity(sr) == [sr EXCEPT !.found = 0]

\* spot_result.found = 0; spot_result.intensity = 0;
NotFound(sr) == [sr EXCEPT !.found = 0, !.intensity = 0]

\* the temporal filter of one coordinate: filtered_x, which is also the new
\* last_x
Filtered(last, raw, alpha, phase) ==
    IF phase < InitPhaseFrames THEN raw * PosScale
    ELSE Smooth(last, raw * PosScale, alpha)

\* the successful exit shared by both entry points: filter, result, counters
Detected(px, py, raw, count, alpha, name) ==
    LET fx == Filtered(last_x, px, alpha, init_frames)
        fy == Filtered(last_y, py, alpha, init_frames)
    IN  /\ successes < MaxSuccesses
        /\ last_x' = fx
        /\ last_y' = fy
        /\ init_frames' = IF init_frames < InitPhaseFrames
                          THEN init_frames + 1 ELSE init_frames
        /\ spot_result' = [x |-> (fx \div PosScale) % 65536,
                           y |-> (fy \div PosScale) % 65536,
                           found |-> 1,
                           intensity |-> count % 65536]
        /\ lost_count' = 0
        /\ centroid' = raw
        /\ successes' = successes + 1
        /\ det_op' = <<name, "found">>

\* an exit through one of the quality gates
Rejected(exit, name) ==
    /\ spot_result' = NotFound(spot_result)
    /\ lost_count' = (lost_count + 1) % 256
    /\ det_op' = <<name, exit>>
    /\ UNCHANGED <<last_x, last_y, init_frames, centroid, successes>>

SPOT_Detect_Reset ==
    /\ spot_result' = [x |-> 0, y |-> 0, found |-> 0, intensity |-> 0]
    /\ last_x' = 160 * PosScale
    /\ last_y' = 120 * PosScale
    /\ init_frames' = 0
    /\ lost_count' = 0
    /\ successes' = 0
    /\ centroid' = <<0, 0>>
    /\ det_op' = <<"Reset", "done">>
    /\ UNCHANGED <<periphery, bright_threshold, scan, ctrl, servo_calls,
                   compare, commanded,
                   op, run,
                   moves>>

SPOT_Detect_SetBrightThreshold(threshold) ==
    /\ bright_threshold' = threshold
    /\ UNCHANGED <<periphery, spot_result, last_x, last_y, init_frames,
                   lost_count, scan,
                   det_op, centroid, successes, ctrl, servo_calls, compare,
                   commanded, op, run,
                   moves>>

\* SPOT_Detect_RGB565_Centroid from the centroid r of a frame img_w wide on
CentroidExit(r, img_w) ==
    IF r.exit = "found"
    THEN Detected(Mirror(img_w, r.x) % 65536, r.y, <<r.x, r.y>>, r.count,
                  RgbAlpha, "RGB565_Centroid")
    ELSE Rejected(r.exit, "RGB565_Centroid")

SPOT_Detect_RGB565_Centroid(f) ==
    /\ CentroidExit(CentroidOf[f][bright_threshold], f.w)
    /\ UNCHANGED <<periphery, bright_threshold, scan, ctrl, servo_calls,
                   compare, commanded,
                   op, run,
                   moves>>

\* the same call with its locals observed
SPOT_Detect_RGB565_Centroid_Observed(f) ==
    /\ CentroidExit(LocalsOf[f][bright_threshold].result, f.w)
    /\ scan' = LocalsOf[f][bright_threshold]
    /\ UNCHANGED <<periphery, bright_threshold, ctrl, servo_calls, compare,
                   commanded,
                   op, run, moves>>

\* SPOT_Detect_Process from the estimate r on
ProcessExit(r) ==
    IF r.exit = "found"
    THEN Detected(r.x, r.y, <<r.x, r.y>>, r.count, JpegAlpha, "Process")
    ELSE IF r.exit = "dark"
    THEN Rejected(r.exit, "Process")
    ELSE /\ spot_result' = [spot_result EXCEPT !.found = 0]
         /\ det_op' = <<"Process", r.exit>>
         /\ UNCHANGED <<last_x, last_y, init_frames, lost_count,
                        centroid, successes>>

SPOT_Detect_Process(j) ==
    /\ ProcessExit(EstimateOf[j][bright_threshold])
    /\ UNCHANGED <<periphery, bright_threshold, scan, ctrl, servo_calls,
                   compare, commanded,
                   op, run,
                   moves>>

(***************************************************************************)
(* Specification                                                           *)
(***************************************************************************)
\* the initializers of the statics of spot_detect.c
LocatorInit ==
    /\ bright_threshold = 240
    /\ last_x = 160 * PosScale
    /\ last_y = 120 * PosScale
    /\ init_frames = 0
    /\ lost_count = 0
    /\ det_op = <<"start", "done">>
    /\ centroid = <<0, 0>>
    /\ successes = 0
    /\ scan = NoScan

\* the initializer of g_jpeg_data_ok; jpeg_test is about to enter its loop
MainInit ==
    /\ g_jpeg_data_ok = 0
    /\ loop_pc = "tick"
    /\ ticks_on_result = 0
    /\ g_jpeg_data_len = 0
    /\ dma_en = 1
    /\ dma_write = <<>>

Init ==
    \E a \in InitArgs :
        /\ config = InitConfig(a)
        /\ state = InitState(a)
        /\ current_mode = SERVO_MODE_MANUAL
        /\ pan_invert_flag = 0
        /\ tilt_invert_flag = 0
        /\ spot_result = [x |-> 0, y |-> 0, found |-> 0, intensity |-> 0]
        /\ servo_calls = ServoCalls(InitConfig(a), InitState(a))
        /\ op = "Init"
        /\ run = 0
        /\ moves = 0
        /\ LocatorInit
        /\ MainInit
        /\ rgb565 = 0
        /\ brightness = 0
        /\ ServoInit(ServoCalls(InitConfig(a), InitState(a)))

Next ==
    \/ \E a \in InitArgs : ServoTrack_Init(a)
    \/ \E m \in Modes : ServoTrack_SetMode(m)
    \/ ServoTrack_Process
    \/ \E a \in ManualArgs : ServoTrack_ManualControl(a)
    \/ \E a \in AngleArgs : ServoTrack_SetAngles(a)
    \/ ServoTrack_Reset
    \/ \E f \in SmoothArgs : ServoTrack_SetSmoothFactor(f)
    \/ \E z \in DeadZoneArgs : ServoTrack_SetDeadZone(z)
    \/ \E t \in MinChangeArgs : ServoTrack_SetMinAngleChange(t)
    \/ \E a \in InvertArgs : ServoTrack_SetAxisInvert(a)
    \/ \E a \in CenterArgs : SPOT_Detect_SetCenter(a)
    \/ \E f \in FoundArgs : SPOT_Detect_SetFound(f)

Spec == Init /\ [][Next]_vars

(***************************************************************************)
(* Automatic tracking on its own: mode changes, ticks, axis inversion and  *)
(* the detection results handed to the controller, without manual angle    *)
(* commands and parameter changes.                                         *)
(***************************************************************************)
TrackNext ==
    \/ \E m \in Modes : ServoTrack_SetMode(m)
    \/ ServoTrack_Process
    \/ \E a \in TrackInvertArgs : ServoTrack_SetAxisInvert(a)
    \/ \E a \in CenterArgs : SPOT_Detect_SetCenter(a)
    \/ \E f \in FoundArgs : SPOT_Detect_SetFound(f)

TrackSpec == Init /\ [][TrackNext]_vars

(***************************************************************************)
(* The spot is lost for good: AUTO has been entered with the servos at     *)
(* some position, the detector reports not-found, and the main loop keeps  *)
(* calling ServoTrack_Process once per iteration.                          *)
(***************************************************************************)
RampInit ==
    \E a \in InitArgs, p \in RampStartArgs :
        LET st == [InitState(a) EXCEPT !.pan_angle = Deg(p[1]),
                                       !.tilt_angle = Deg(p[2])]
        IN  /\ config = InitConfig(a)
            /\ state = st
            /\ current_mode = SERVO_MODE_AUTO_TRACK
            /\ pan_invert_flag = 0
            /\ tilt_invert_flag = 0
            /\ spot_result = [x |-> 0, y |-> 0, found |-> 0, intensity |-> 0]
            /\ servo_calls = <<>>
            /\ op = "SetMode"
            /\ run = 0
            /\ moves = 0
            /\ LocatorInit
            /\ MainInit
            /\ rgb565 = 0
            /\ brightness = 0
            /\ ServoInit(ServoCalls(InitConfig(a), st))

RampNext == ServoTrack_Process_Ramp

RampSpec == RampInit /\ [][RampNext]_vars /\ WF_vars(RampNext)

(***************************************************************************)
(* The spot stands still: AUTO has been entered with the servos at some    *)
(* position, the detector keeps reporting the same found position outside  *)
(* the dead zone, smooth_factor is in (0, 1] and min_angle_change above 0, *)
(* and the main loop keeps calling ServoTrack_Process.                     *)
(***************************************************************************)
\* spot_result.x, spot_result.y
ApproachSpots == {<<319, 239>>, <<400, 120>>}
\* state.pan_angle, state.tilt_angle (degrees) when the spot is first seen
ApproachStartArgs == {<<0, 180>>, <<45, 120>>}
\* config.smooth_factor (1/FactorScale) and config.min_angle_change
\* (1/AngleScale degrees)
ApproachSmoothArgs == {FactorScale \div 10, (3 * FactorScale) \div 10, FactorScale}
ApproachMinChangeArgs == {Deg(1) \div 2, (5 * Deg(1)) \div 2}

ApproachInit ==
    \E a \in InitArgs, p \in ApproachStartArgs, xy \in ApproachSpots,
       k \in ApproachSmoothArgs, m \in ApproachMinChangeArgs :
        LET st == [InitState(a) EXCEPT !.pan_angle = Deg(p[1]),
                                       !.tilt_angle = Deg(p[2])]
        IN  /\ config = [InitConfig(a) EXCEPT !.smooth_factor = k,
                                              !.min_angle_change = m]
            /\ state = st
            /\ current_mode = SERVO_MODE_AUTO_TRACK
            /\ pan_invert_flag = 0
            /\ tilt_invert_flag = 0
            /\ spot_result = [x |-> xy[1], y |-> xy[2], found |-> 1,
                              intensity |-> 100]
            /\ servo_calls = <<>>
            /\ op = "SetMode"
            /\ run = 0
            /\ moves = 0
            /\ LocatorInit
            /\ MainInit
            /\ rgb565 = 0
            /\ brightness = 0
            /\ ServoInit(ServoCalls(InitConfig(a), st))

ApproachNext == ServoTrack_Process_Ramp

ApproachSpec == ApproachInit /\ [][ApproachNext]_vars /\ WF_vars(ApproachNext)

(***************************************************************************)
(* The spot locator on its own: frames arrive through either entry point,  *)
(* with no position or found flag injected.                                *)
(***************************************************************************)
DetNext ==
    \/ SPOT_Detect_Reset
    \/ \E t \in ThresholdArgs : SPOT_Detect_SetBrightThreshold(t)
    \/ \E f \in RgbFrames : SPOT_Detect_RGB565_Centroid(f)
    \/ \E j \in JpegStreams : SPOT_Detect_Process(j)

DetSpec == Init /\ [][DetNext]_vars

(***************************************************************************)
(* The raw-buffer locate on its own, with the locals of each call          *)
(* observed.                                                               *)
(***************************************************************************)
ScanNext == \E f \in ScanFrames : SPOT_Detect_RGB565_Centroid_Observed(f)

ScanSpec == Init /\ [][ScanNext]_vars

(***************************************************************************)
(* main.c: the frame hand-off and the loop of jpeg_test.  One iteration    *)
(* of while(1) is the four steps tick, keys, manual, frame; the            *)
(* frame-complete interrupt jpeg_data_process can fire between any two.    *)
(* The frames are shorter than one line buffer, so that the DMA interrupt  *)
(* stays out.                                                              *)
(***************************************************************************)
\* cap on ticks_on_result
MaxStaleTicks == 3
\* frames that the detector accepts or rejects in one run of jpeg_test
MaxFrames == 3
\* pan_delta, tilt_delta of the keys KEY1, KEY2, WK_UP, KEY4 (degrees)
KeyDeltas == {<<-10, 0>>, <<10, 10>>}
\* the contents of g_jpeg_data_buf at the end of a capture
CapturedStreams == {ShortStream, NoHeaderStream, DarkStream, BrightStream}
\* jpeg_img_size_tbl[size] with size = 2
MainImgW == 320
MainImgH == 240

\* jpglen of the search for FF D8 .. FF D9: a buffer record that starts
\* with FF D8 stands for the bytes from FF D8 through FF D9
jpglen(j) == IF Byte(j, 0) = 255 /\ Byte(j, 1) = 216 THEN j.len ELSE 0

MainEstimateOf ==
    [j \in CapturedStreams |-> [t \in Thresholds |->
                                  Estimate(j, MainImgW, MainImgH, t)]]

\* #define jpeg_buf_size 29*1024, in words
jpeg_buf_size == 29 * 1024
\* #define jpeg_line_size 1*1024, in words
jpeg_line_size == 1024
\* rlen of jpeg_data_process: jpeg_line_size less the DMA counter
RemainderArgs == {0, 1, jpeg_line_size - 1}

\* pbuf = g_jpeg_data_buf + g_jpeg_data_len; for (i = 0; i < n; i++)
\* pbuf[i] = ...; g_jpeg_data_len += n;
AppendWords(n) ==
    /\ dma_write' = IF n = 0 THEN dma_write
                    ELSE <<g_jpeg_data_len, g_jpeg_data_len + n>>
    /\ g_jpeg_data_len' = g_jpeg_data_len + n

\* jpeg_data_process with g_ov_mode = 1
jpeg_data_process ==
    /\ IF g_jpeg_data_ok = 0
       THEN /\ dma_en' = 0
            /\ \E rlen \in RemainderArgs : AppendWords(rlen)
            /\ g_jpeg_data_ok' = 1
       ELSE IF g_jpeg_data_ok = 2
       THEN /\ dma_en' = 1
            /\ g_jpeg_data_ok' = 0
            /\ g_jpeg_data_len' = 0
            /\ dma_write' = <<>>
       ELSE UNCHANGED <<g_jpeg_data_ok, capture>>
    /\ UNCHANGED <<servo, wifi, conversion, loop_pc, ticks_on_result,
                   locator, ctrl, spot_result, servo_calls, compare,
                   commanded, op, run, moves>>

\* ServoTrack_Process();
Loop_Tick ==
    /\ loop_pc = "tick"
    /\ ProcessStep(MaxLost, TRUE)
    /\ loop_pc' = "keys"
    /\ ticks_on_result' = IF ticks_on_result < MaxStaleTicks
                          THEN ticks_on_result + 1 ELSE ticks_on_result
    /\ UNCHANGED <<servo, wifi, conversion, g_jpeg_data_ok, capture>>

\* key = key_scan(0); if (key == KEY0_PRES) { ... }
Loop_Keys ==
    /\ loop_pc = "keys"
    /\ \/ SetModeStep(IF current_mode = SERVO_MODE_MANUAL
                      THEN SERVO_MODE_AUTO_TRACK ELSE SERVO_MODE_MANUAL)
       \/ UNCHANGED <<ctrl, locator, spot_result, servo_calls, compare,
                      commanded, op,
                      run, moves>>
    /\ loop_pc' = "manual"
    /\ UNCHANGED <<servo, wifi, conversion, g_jpeg_data_ok, capture,
                   ticks_on_result>>

\* if (ServoTrack_GetMode() == SERVO_MODE_MANUAL) { ... }
Loop_Manual ==
    /\ loop_pc = "manual"
    /\ \/ /\ current_mode = SERVO_MODE_MANUAL
          /\ \E a \in KeyDeltas : ManualControlStep(a)
       \/ UNCHANGED <<ctrl, locator, spot_result, servo_calls, compare,
                      commanded, op,
                      run, moves>>
    /\ loop_pc' = "frame"
    /\ UNCHANGED <<servo, wifi, conversion, g_jpeg_data_ok, capture,
                   ticks_on_result>>

\* if (g_jpeg_data_ok == 1) { ... g_jpeg_data_ok = 2; }
Loop_Frame ==
    /\ loop_pc = "frame"
    /\ IF g_jpeg_data_ok = 1
       THEN /\ successes + lost_count < MaxFrames
            /\ \E j \in CapturedStreams :
                 IF jpglen(j) # 0
                 THEN /\ ProcessExit(MainEstimateOf[j][bright_threshold])
                      /\ ticks_on_result' = 0
                 ELSE UNCHANGED <<locator, spot_result, ticks_on_result>>
            /\ g_jpeg_data_ok' = 2
       ELSE UNCHANGED <<locator, spot_result, ticks_on_result,
                        g_jpeg_data_ok>>
    /\ loop_pc' = "tick"
    /\ UNCHANGED <<servo, wifi, conversion, capture, bright_threshold, scan,
                   ctrl,
                   servo_calls, compare, commanded, op, run,
                   moves>>

(***************************************************************************)
(* main.c: the capture of a frame.  The DMA interrupt delivers one line    *)
(* buffer after another while the stream is enabled, the frame-complete    *)
(* interrupt ends the capture, and jpeg_test takes the frame over in three *)
(* steps between which both interrupts can fire.                           *)
(***************************************************************************)
\* line buffers that the DMA delivers in one capture
MaxLines == 30
\* what g_jpeg_data_ok can hold once the words behind g_jpeg_data_buf have
\* been overwritten: the three values the code tests for, and any other
FlagBytes == {0, 1, 2, 255}

\* whether a write of n words at g_jpeg_data_len ends behind g_jpeg_data_buf
Overruns(n) == n > 0 /\ g_jpeg_data_len + n > jpeg_buf_size

\* jpeg_dcmi_rx_callback, called for a full line buffer while the stream is
\* enabled; a copy that runs over the end of g_jpeg_data_buf overwrites what
\* the linker placed behind it, of which g_jpeg_data_ok is followed here
jpeg_dcmi_rx_callback ==
    /\ dma_en = 1
    /\ g_jpeg_data_len \div jpeg_line_size < MaxLines
    /\ AppendWords(jpeg_line_size)
    /\ IF Overruns(jpeg_line_size)
       THEN g_jpeg_data_ok' \in FlagBytes
       ELSE UNCHANGED g_jpeg_data_ok
    /\ UNCHANGED <<servo, wifi, conversion, loop_pc, ticks_on_result, dma_en,
                   locator, ctrl, spot_result, servo_calls, compare,
                   commanded, op, run, moves>>

\* ServoTrack_Process, the key handling and the manual control of one loop
\* iteration, none of which reads or writes the capture
Loop_Controls ==
    /\ loop_pc = "tick"
    /\ loop_pc' = "frame"
    /\ UNCHANGED <<servo, wifi, conversion, g_jpeg_data_ok, capture,
                   ticks_on_result, locator, ctrl, spot_result, servo_calls,
                   compare, commanded, op, run, moves>>

\* if (g_jpeg_data_ok == 1)
Frame_Poll ==
    /\ loop_pc = "frame"
    /\ loop_pc' = IF g_jpeg_data_ok = 1 THEN "scan" ELSE "tick"
    /\ UNCHANGED <<servo, wifi, conversion, g_jpeg_data_ok, capture,
                   ticks_on_result, locator, ctrl, spot_result, servo_calls,
                   compare, commanded, op, run, moves>>

\* the search for FF D8 .. FF D9 in g_jpeg_data_buf and, if (jpglen),
\* SPOT_Detect_Process
Frame_Scan ==
    /\ loop_pc = "scan"
    /\ successes + lost_count < MaxFrames
    /\ \E j \in CapturedStreams :
         IF jpglen(j) # 0
         THEN /\ ProcessExit(MainEstimateOf[j][bright_threshold])
              /\ ticks_on_result' = 0
         ELSE UNCHANGED <<locator, spot_result, ticks_on_result>>
    /\ loop_pc' = "send"
    /\ UNCHANGED <<servo, wifi, conversion, g_jpeg_data_ok, capture,
                   bright_threshold, scan, ctrl, servo_calls, compare,
                   commanded, op, run, moves>>

\* the transfer over USART2, then g_jpeg_data_ok = 2;
Frame_Release ==
    /\ loop_pc = "send"
    /\ g_jpeg_data_ok' = 2
    /\ loop_pc' = "tick"
    /\ UNCHANGED <<servo, wifi, conversion, capture, ticks_on_result, locator,
                   ctrl, spot_result, servo_calls, compare, commanded, op,
                   run, moves>>

CaptureNext ==
    \/ jpeg_data_process
    \/ jpeg_dcmi_rx_callback
    \/ Loop_Controls
    \/ Frame_Poll
    \/ Frame_Scan
    \/ Frame_Release

CaptureSpec == Init /\ [][CaptureNext]_vars

MainNext ==
    \/ jpeg_data_process
    \/ Loop_Tick
    \/ Loop_Keys
    \/ Loop_Manual
    \/ Loop_Frame

MainSpec == Init /\ [][MainNext]_vars

(***************************************************************************)
(* spot_detect.c: rgb565_to_brightness on its own, applied once to a       *)
(* 16-bit sample.                                                          *)
(***************************************************************************)
\* every uint16_t value
PixelSamples == 0..65535
\* brightness before the call
NoBrightness == -1

ConversionInit ==
    \E a \in InitArgs, v \in PixelSamples :
        /\ config = InitConfig(a)
        /\ state = InitState(a)
        /\ current_mode = SERVO_MODE_MANUAL
        /\ pan_invert_flag = 0
        /\ tilt_invert_flag = 0
        /\ spot_result = [x |-> 0, y |-> 0, found |-> 0, intensity |-> 0]
        /\ servo_calls = ServoCalls(InitConfig(a), InitState(a))
        /\ op = "Init"
        /\ run = 0
        /\ moves = 0
        /\ LocatorInit
        /\ MainInit
        /\ rgb565 = v
        /\ brightness = NoBrightness
        /\ ServoInit(ServoCalls(InitConfig(a), InitState(a)))

rgb565_to_brightness_call ==
    /\ brightness = NoBrightness
    /\ brightness' = rgb565_to_brightness(rgb565)
    /\ UNCHANGED <<servo, wifi, rgb565, mainloop, locator, ctrl, spot_result,
                   servo_calls, compare, commanded,
                   op, run, moves>>

ConversionNext == rgb565_to_brightness_call

ConversionSpec == ConversionInit /\ [][ConversionNext]_vars

(***************************************************************************)
(* Servo.c on its own: calibration and actuation calls with arguments      *)
(* inside and outside their ranges.                                        *)
(***************************************************************************)
ServoNext ==
    \/ \E ch \in ServoChannelArgs, angle \in ServoAngleArgs :
          Servo_SetAngle(ch, angle)
    \/ \E ch \in ServoChannelArgs, offset \in ServoOffsetArgs :
          Servo_SetCenterOffset(ch, offset)
    \/ \E ch \in ServoChannelArgs, a \in ServoRangeArgs :
          Servo_SetAngleRange(ch, a)

ServoSpec == Init /\ [][ServoNext]_vars

(***************************************************************************)
(* esp8266.h on its own: calls of esp8266_send_cmd and the bytes that      *)
(* arrive while it polls.                                                  *)
(***************************************************************************)
WifiNext ==
    \/ \E cmd_null \in BOOLEAN, ack \in AckArgs, waittime \in WaitArgs :
          esp8266_send_cmd_call(cmd_null, ack, waittime)
    \/ esp8266_send_cmd_poll
    \/ esp8266_send_cmd_timeout

WifiSpec == Init /\ [][WifiNext]_vars

(***************************************************************************)
(* Manual operation: key-sized and large angle increments, with the mode   *)
(* switches and lost ticks that leave counters for them to preserve.       *)
(***************************************************************************)
ManualNext ==
    \/ \E mode \in Modes : ServoTrack_SetMode(mode)
    \/ \E a \in ManualArgs \cup KeyDeltas : ServoTrack_ManualControl(a)
    \/ \E found \in FoundArgs : SPOT_Detect_SetFound(found)
    \/ ServoTrack_Process

ManualSpec == Init /\ [][ManualNext]_vars

(***************************************************************************)
(* The return to center under the parameter values that the setters can    *)
(* leave: the spot is lost for good as in RampSpec.                        *)
(***************************************************************************)
\* smooth_factor and min_angle_change (grid values) at the loss
ReturnSmoothArgs == {0, (3 * FactorScale) \div 10, FactorScale}
ReturnMinChangeArgs == {0, Deg(1), 250}

ReturnInit ==
    \E a \in InitArgs, p \in RampStartArgs,
       k \in ReturnSmoothArgs, m \in ReturnMinChangeArgs :
        LET st == [InitState(a) EXCEPT !.pan_angle = Deg(p[1]),
                                       !.tilt_angle = Deg(p[2])]
        IN  /\ config = [InitConfig(a) EXCEPT !.smooth_factor = k,
                                              !.min_angle_change = m]
            /\ state = st
            /\ current_mode = SERVO_MODE_AUTO_TRACK
            /\ pan_invert_flag = 0
            /\ tilt_invert_flag = 0
            /\ spot_result = [x |-> 0, y |-> 0, found |-> 0, intensity |-> 0]
            /\ servo_calls = <<>>
            /\ op = "SetMode"
            /\ run = 0
            /\ moves = 0
            /\ LocatorInit
            /\ MainInit
            /\ rgb565 = 0
            /\ brightness = 0
            /\ ServoInit(ServoCalls(InitConfig(a), st))

ReturnNext == ServoTrack_Process_Ramp

ReturnSpec == ReturnInit /\ [][ReturnNext]_vars

\* the configuration interface alone: initialisation, the parameter setters,
\* and the mode switch, detector flag and tick that vary the tracker state
\* the setters must leave alone
ConfigNext ==
    \/ \E a \in InitArgs : ServoTrack_Init(a)
    \/ \E factor \in ConfigSmoothArgs : ServoTrack_SetSmoothFactor(factor)
    \/ \E zone \in ConfigDeadZoneArgs : ServoTrack_SetDeadZone(zone)
    \/ \E threshold \in ConfigMinChangeArgs :
          ServoTrack_SetMinAngleChange(threshold)
    \/ \E a \in TrackInvertArgs : ServoTrack_SetAxisInvert(a)
    \/ \E mode \in Modes : ServoTrack_SetMode(mode)
    \/ \E found \in FoundArgs : SPOT_Detect_SetFound(found)
    \/ \E a \in ImageCenterArgs : SPOT_Detect_SetCenter(a)
    \/ ServoTrack_Process

ConfigSpec == Init /\ [][ConfigNext]_vars

TypeOK ==
    /\ state.pan_angle \in Int
    /\ state.tilt_angle \in Int
    /\ state.lost_frames \in 0..MaxLost
    /\ state.tracking \in {0, 1}
    /\ state.returning_to_center \in {0, 1}
    /\ current_mode \in Modes
    /\ run \in 0..MaxLost
    /\ moves \in 0..MaxMoves

(***************************************************************************)
(* Properties                                                              *)
(***************************************************************************)
AUTO == current_mode = SERVO_MODE_AUTO_TRACK
MANUAL == current_mode = SERVO_MODE_MANUAL
ProcessOps == {"Process.return", "Process.found", "Process.lost"}

\* clamp_[0,180] as the claims state it
Clamp180(a) == IF a < 0 THEN 0 ELSE IF a > 180 * AngleScale THEN 180 * AngleScale ELSE a

AnglesUnchanged ==
    /\ state'.pan_angle = state.pan_angle
    /\ state'.tilt_angle = state.tilt_angle

\* the actuation of both channels with the angles of the next state
ActuatesBoth ==
    servo_calls' = << <<config.pan_channel, state'.pan_angle>>,
                      <<config.tilt_channel, state'.tilt_angle>> >>

NoActuation == servo_calls' = <<>>

\* C1: after any sequence of operations both pan_angle and tilt_angle are
\* within [0,180] degrees, also while the return-to-center ramp runs.
C1_AnglesInRange ==
    /\ state.pan_angle \in 0..(180 * AngleScale)
    /\ state.tilt_angle \in 0..(180 * AngleScale)

\* a return-to-center step has moved the angles away from a clamped position
C1_Witness ==
    /\ op = "Process.lost"
    /\ state.returning_to_center = 1
    /\ servo_calls # <<>>
    /\ state.pan_angle \notin {0, 90 * AngleScale}

\* C2: returning_to_center = true implies lost_frames >= 30 in every
\* reachable state of the controller.
C2_ReturningImpliesTimeout ==
    state.returning_to_center = 1 => state.lost_frames >= 30

\* C3: from AUTO with lost_frames = 0 and returning_to_center = false, the
\* flag stays false during the first 29 consecutive not-found ticks, is true
\* from the 30th on, and is false after the next found tick.
C3_TimeoutAtThirty ==
    /\ run \in 1..29 => state.returning_to_center = 0
    /\ run >= 30 => state.returning_to_center = 1
    /\ op = "Process.found" => state.returning_to_center = 0

\* the 30th not-found tick of a run has just set the flag
C3_Witness ==
    /\ op = "Process.lost"
    /\ run = 30
    /\ state.returning_to_center = 1

\* C4: a tick in MANUAL changes no field of TrackerState and actuates
\* nothing, whatever the detector reports.
C4_ManualTickNoOp ==
    [][(MANUAL /\ ServoTrack_Process) =>
          (state' = state /\ NoActuation /\ current_mode' = current_mode)]_vars

\* a tick has run in MANUAL with a found spot and a pending lost count
C4_Witness ==
    /\ op = "Process.return"
    /\ MANUAL
    /\ spot_result.found = 1
    /\ state.lost_frames > 0

\* C5: SetMode from MANUAL into AUTO leaves lost_frames = 0 and
\* returning_to_center = false whatever they were, keeps both angles and
\* actuates nothing.
C5_EnterAutoResets ==
    [][(MANUAL /\ ServoTrack_SetMode(SERVO_MODE_AUTO_TRACK)) =>
          /\ current_mode' = SERVO_MODE_AUTO_TRACK
          /\ state'.lost_frames = 0
          /\ state'.returning_to_center = 0
          /\ AnglesUnchanged
          /\ NoActuation]_vars

\* AUTO has just been entered with angles away from the center
C5_Witness ==
    /\ op = "SetMode"
    /\ AUTO
    /\ state.lost_frames = 0
    /\ state.returning_to_center = 0
    /\ state.pan_angle # 90 * AngleScale

\* squared distance from the image center, times four
Dist2x4(x, y) ==
    (2 * x - config.img_width) * (2 * x - config.img_width)
      + (2 * y - config.img_height) * (2 * y - config.img_height)

WithinDeadZone(x, y) == Dist2x4(x, y) <= 4 * config.dead_zone * config.dead_zone

\* C6: an AUTO tick with a found position within dead_zone of the image
\* center leaves both angles unchanged and actuates nothing.
C6_DeadZoneHolds ==
    [][(/\ AUTO
        /\ spot_result.found # 0
        /\ WithinDeadZone(spot_result.x, spot_result.y)
        /\ ServoTrack_Process) => (AnglesUnchanged /\ NoActuation)]_vars

\* a found tick has held off-center angles for a spot on the dead-zone rim
C6_Witness ==
    /\ op = "Process.found"
    /\ AUTO
    /\ state.target_x = 400 /\ state.target_y = 120
    /\ config.dead_zone = 240
    /\ servo_calls = <<>>
    /\ state.pan_angle # 90 * AngleScale

\* the smoothed and clamped candidate angle of the claim
Candidate(old, target, k) ==
    Clamp180(RoundDiv(old * (FactorScale - k) + target * k, FactorScale))

CandidatePan ==
    Candidate(state.pan_angle,
              coord_to_angles(spot_result.x, spot_result.y, config,
                              pan_invert_flag, tilt_invert_flag).pan,
              config.smooth_factor)

CandidateTilt ==
    Candidate(state.tilt_angle,
              coord_to_angles(spot_result.x, spot_result.y, config,
                              pan_invert_flag, tilt_invert_flag).tilt,
              config.smooth_factor)

\* C7: an AUTO tick with a found position outside the dead zone commits and
\* actuates the smoothed, clamped angles of both axes if either axis changes
\* by at least min_angle_change, and otherwise changes and actuates nothing.
C7_SmoothAndGate ==
    [][(/\ AUTO
        /\ spot_result.found # 0
        /\ ~WithinDeadZone(spot_result.x, spot_result.y)
        /\ ServoTrack_Process) =>
          IF \/ fabsf(CandidatePan - state.pan_angle) >= config.min_angle_change
             \/ fabsf(CandidateTilt - state.tilt_angle) >= config.min_angle_change
          THEN /\ state'.pan_angle = CandidatePan
               /\ state'.tilt_angle = CandidateTilt
               /\ ActuatesBoth
          ELSE AnglesUnchanged /\ NoActuation]_vars

\* a tracking tick has committed a move in which only the tilt axis changed
C7_Witness ==
    /\ op = "Process.found"
    /\ servo_calls # <<>>
    /\ state.pan_angle = 0
    /\ state.tilt_angle \notin {0, 180 * AngleScale, 90 * AngleScale}

\* C8: a ManualControl call made in AUTO changes no angle and actuates
\* nothing.
C8_ManualControlOnlyInManual ==
    [][\A a \in ManualArgs :
          (AUTO /\ ServoTrack_ManualControl(a)) =>
              (AnglesUnchanged /\ NoActuation)]_vars

\* C9: SetAngles sets both angles to the clamped arguments in either mode,
\* actuates both channels with them and leaves the mode, the other state
\* fields and the configuration unchanged.
C9_SetAnglesAbsolute ==
    [][\A a \in AngleArgs :
          ServoTrack_SetAngles(a) =>
              /\ state' = [state EXCEPT
                              !.pan_angle = Clamp180(a[1] * AngleScale),
                              !.tilt_angle = Clamp180(a[2] * AngleScale)]
              /\ ActuatesBoth
              /\ UNCHANGED <<current_mode, config>>]_vars

\* SetAngles has clamped both arguments while a return to center was active
C9_Witness ==
    /\ op = "SetAngles"
    /\ AUTO
    /\ state.returning_to_center = 1
    /\ state.pan_angle = 0
    /\ state.tilt_angle = 180 * AngleScale

\* C10: after every tick, in any mode, tracking is true iff the found branch
\* executed during that tick.
C10_TrackingReflectsBranch ==
    op \in ProcessOps => (state.tracking = 1 <=> op = "Process.found")

\* C10 amended: after every tick executed in AUTO, tracking is true iff the
\* found branch executed during that tick; a tick in MANUAL leaves the flag
\* as it was.
C10_TrackingReflectsBranchInAuto ==
    [][ServoTrack_Process =>
          IF AUTO
          THEN /\ state'.tracking = 1 <=> op' = "Process.found"
               /\ op' = "Process.found" <=> spot_result.found # 0
          ELSE state'.tracking = state.tracking]_vars

\* a not-found tick has cleared a tracking flag that a found tick had set
C10_Witness ==
    /\ op = "Process.lost"
    /\ state.tracking = 0
    /\ state.lost_frames = 1
    /\ state.target_x = 400

\* C11: after any tick during which the detector reports found, lost_frames
\* is 0; after any AUTO tick during which it reports not-found, lost_frames
\* is one more than before the tick.
C11_LostFramesFollowDetector ==
    [][ServoTrack_Process =>
          IF spot_result.found # 0
          THEN state'.lost_frames = 0
          ELSE AUTO => state'.lost_frames = state.lost_frames + 1]_vars

\* C11 amended: after any AUTO tick with found reported lost_frames is 0,
\* after any AUTO tick with not-found reported it is one more than before,
\* and a tick in MANUAL leaves it as it was.
C11_LostFramesFollowDetectorInAuto ==
    [][ServoTrack_Process =>
          IF ~AUTO THEN state'.lost_frames = state.lost_frames
          ELSE IF spot_result.found # 0 THEN state'.lost_frames = 0
          ELSE state'.lost_frames = state.lost_frames + 1]_vars

\* a found tick has set the count to 0 and the two not-found ticks after it
\* have each added one
C11_Witness ==
    /\ op = "Process.lost"
    /\ AUTO
    /\ state.target_x = 400
    /\ state.lost_frames = 2
    /\ run = 2

\* no not-found tick would move the servos any more
Settled == ~ProcessLost(state).moved

AtCenter ==
    /\ state.pan_angle = 90 * AngleScale
    /\ state.tilt_angle = 90 * AngleScale

\* both angles within 0.4 degrees of the center
NearCenter ==
    LET slack == (4 * AngleScale) \div 10
    IN  /\ state.pan_angle \in (90 * AngleScale - slack)..(90 * AngleScale + slack)
        /\ state.tilt_angle \in (90 * AngleScale - slack)..(90 * AngleScale + slack)

\* C12: once returning_to_center is set and the detector keeps reporting
\* not-found, the controller reaches a state from which no tick changes the
\* angles or actuates, and the position held then is exactly (90, 90).
C12_RampReachesCenter ==
    (state.returning_to_center = 1) ~> [](Settled /\ AtCenter)

\* C12 amended: ... and the position held then is within 0.4 degrees of the
\* center on both axes.
C12_RampSettlesNearCenter ==
    (state.returning_to_center = 1) ~> [](Settled /\ NearCenter)

\* the return has stopped short of the center after moving the servos
C12_Witness ==
    /\ state.returning_to_center = 1
    /\ Settled
    /\ op = "Process.lost"
    /\ state.lost_frames > LostTimeout + 5
    /\ ~AtCenter

(***************************************************************************)
(* Properties of the spot locator                                          *)
(***************************************************************************)
\* the exits of a locate call that leave found = 0
NotFoundExits == {"dark", "few", "score", "invalid", "header"}

RawCall == \E f \in RgbFrames : SPOT_Detect_RGB565_Centroid(f)
StreamCall == \E j \in JpegStreams : SPOT_Detect_Process(j)

\* the brightest pixel of each frame
MaxBrightness ==
    [f \in RgbFrames |->
        SetMax({0} \cup {rgb565_to_brightness(Pixel(f, x, y)) :
                            x \in 0..(f.w - 1), y \in 0..(f.h - 1)})]

\* C13: for a frame in which no pixel reaches the brightness threshold,
\* SPOT_Detect_RGB565_Centroid ends with found = 0 and intensity = 0, adds
\* one to the lost counter, and leaves last_x, last_y and init_frames as
\* they were.
C13_DarkFrameRejected ==
    [][\A f \in RgbFrames :
          (MaxBrightness[f] < bright_threshold
             /\ SPOT_Detect_RGB565_Centroid(f)) =>
              /\ spot_result'.found = 0
              /\ spot_result'.intensity = 0
              /\ lost_count' = lost_count + 1
              /\ UNCHANGED <<last_x, last_y, init_frames>>]_vars

\* C13 amended: ... adds one to the 8-bit lost counter, which wraps from 255
\* to 0 ...
C13_DarkFrameRejectedMod256 ==
    [][\A f \in RgbFrames :
          (MaxBrightness[f] < bright_threshold
             /\ SPOT_Detect_RGB565_Centroid(f)) =>
              /\ spot_result'.found = 0
              /\ spot_result'.intensity = 0
              /\ lost_count' = IF lost_count = 255 THEN 0 ELSE lost_count + 1
              /\ UNCHANGED <<last_x, last_y, init_frames>>]_vars

\* a dark frame has been rejected after earlier detections, and the counter
\* has wrapped to 0
C13_Witness ==
    /\ det_op = <<"RGB565_Centroid", "dark">>
    /\ spot_result.found = 0
    /\ spot_result.intensity = 0
    /\ init_frames > 0
    /\ lost_count = 0

\* C14: whenever a locate call ends not-found, the result it leaves has
\* x = 0, y = 0 and intensity = 0.
C14_NotFoundClearsResult ==
    det_op[2] \in NotFoundExits =>
        /\ spot_result.x = 0
        /\ spot_result.y = 0
        /\ spot_result.intensity = 0

\* C15: every call of either entry point that ends not-found leaves
\* found = 0 and intensity = 0 and adds one to the shared lost counter.
C15_EntryPointsAgreeOnFailure ==
    [][((RawCall \/ StreamCall) /\ det_op'[2] \in NotFoundExits) =>
          /\ spot_result'.found = 0
          /\ spot_result'.intensity = 0
          /\ lost_count' = lost_count + 1]_vars

\* C16: after any sequence of locate calls with the same img_w and img_h and
\* no injected position, found = 1 implies 0 <= x < img_w and 0 <= y < img_h.
C16_FoundPositionInFrame ==
    spot_result.found = 1 =>
        /\ spot_result.x \in 0..(FrameW - 1)
        /\ spot_result.y \in 0..(FrameH - 1)

\* the filter has produced the rightmost column of the frame
C16_Witness ==
    /\ det_op = <<"RGB565_Centroid", "found">>
    /\ spot_result.found = 1
    /\ spot_result.x = FrameW - 1
    /\ init_frames = 10
    /\ successes = 11

\* the frames that hold one uniform square
SquareFrames == {f \in RgbFrames : f.sx = f.sy /\ f.sx > 0}

\* C17: for a frame with one uniform square on a dark background that passes
\* the pixel-count and score gates, whatever the size of the square, the
\* centroid before mirror correction is within 1 pixel of the geometric
\* center (x0 + (sx - 1)/2, y0 + (sy - 1)/2) of the square.
C17_SquareCentroidWithinOnePixel ==
    [][\A f \in SquareFrames :
          (SPOT_Detect_RGB565_Centroid(f) /\ det_op'[2] = "found") =>
              /\ 2 * centroid'[1] - (2 * f.x0 + f.sx - 1) \in -2..2
              /\ 2 * centroid'[2] - (2 * f.y0 + f.sy - 1) \in -2..2]_vars

\* C18: SPOT_Detect_RGB565_Centroid feeds img_w - 1 - centroid_x and the
\* unmirrored centroid_y to the temporal filter, so that a region centered
\* at x = 10 of a 320 pixel wide frame yields x = 309 in the init phase.
C18_MirroredCentroid ==
    [][\A f \in RgbFrames :
          (SPOT_Detect_RGB565_Centroid(f) /\ det_op'[2] = "found") =>
              LET mx == f.w - 1 - centroid'[1]
                  my == centroid'[2]
              IN  /\ init_frames < 10 =>
                        /\ spot_result'.x = mx /\ last_x' = mx * PosScale
                        /\ spot_result'.y = my /\ last_y' = my * PosScale
                  /\ init_frames >= 10 =>
                        /\ last_x' = RoundDiv(last_x + 3 * mx * PosScale, 4)
                        /\ last_y' = RoundDiv(last_y + 3 * my * PosScale, 4)
                  /\ (f.w = 320 /\ 2 * f.x0 + f.sx - 1 = 2 * 10
                        /\ init_frames < 10) => spot_result'.x = 309]_vars

\* the square centered at (10, 15) has been located in the init phase
C18_Witness ==
    /\ det_op = <<"RGB565_Centroid", "found">>
    /\ centroid = <<10, 15>>
    /\ spot_result.x = 309
    /\ spot_result.y = 15
    /\ successes <= 10

\* the position a successful call feeds to the filter
RawX == IF det_op'[1] = "RGB565_Centroid" THEN FrameW - 1 - centroid'[1]
        ELSE centroid'[1]
RawY == centroid'[2]

\* C19: after SPOT_Detect_Reset each of the first 10 successful detections
\* outputs the raw (mirror-corrected) centroid, not-found frames in between
\* neither restart nor consume the init phase, init_frames never exceeds 10,
\* and from the 11th successful detection on the raw-buffer locate sets the
\* filtered position to 0.25 * previous + 0.75 * raw, so that its distance to
\* the raw centroid is a quarter of what it was.
C19_InitPhaseThenFilter ==
    [][(RawCall \/ StreamCall \/ SPOT_Detect_Reset) =>
          /\ init_frames' <= 10
          /\ init_frames' = IF successes' < 10 THEN successes' ELSE 10
          /\ det_op'[2] \in NotFoundExits =>
                (init_frames' = init_frames /\ successes' = successes)
          /\ (det_op'[2] = "found" /\ successes < 10) =>
                /\ spot_result'.x = RawX /\ last_x' = RawX * PosScale
                /\ spot_result'.y = RawY /\ last_y' = RawY * PosScale
          /\ (det_op' = <<"RGB565_Centroid", "found">> /\ successes >= 10) =>
                /\ 4 * last_x' - (last_x + 3 * RawX * PosScale) \in -2..2
                /\ 4 * last_y' - (last_y + 3 * RawY * PosScale) \in -2..2
                /\ 4 * (last_x' - RawX * PosScale)
                      - (last_x - RawX * PosScale) \in -2..2
                /\ spot_result'.x = last_x' \div PosScale
                /\ spot_result'.y = last_y' \div PosScale]_vars

\* the 11th successful detection has moved the filtered position three
\* quarters of the way from the old position to a different raw centroid
C19_Witness ==
    /\ det_op = <<"RGB565_Centroid", "found">>
    /\ successes = 11
    /\ init_frames = 10
    /\ centroid = <<107, 17>>
    /\ last_x = (236 * PosScale) + (PosScale \div 4)

\* positions handed to coord_to_angles
MapXs == {0, 100, 400}
MapYs == {0, 239}

\* C20: for every position and both values of tilt_invert, the pan angle
\* with pan_invert set is 180 minus the pan angle with pan_invert clear,
\* which is 90 + (x - img_w/2) * 90 / (img_w/2); the tilt angle does not
\* depend on pan_invert.
C20_PanInvertMirrors ==
    \A x \in MapXs, y \in MapYs, t \in {0, 1} :
        LET on == coord_to_angles(x, y, config, 1, t)
            off == coord_to_angles(x, y, config, 0, t)
        IN  /\ on.pan = 180 * AngleScale - off.pan
            /\ on.tilt = off.tilt
            /\ 2 * ((off.pan - 90 * AngleScale) * config.img_width
                      - (2 * x - config.img_width) * 90 * AngleScale)
                  \in (-config.img_width)..config.img_width

\* a tracking tick has moved the pan axis towards the mirrored angle of a
\* spot at x = 400
C20_Witness ==
    /\ op = "Process.found"
    /\ pan_invert_flag = 1
    /\ state.target_x = 400
    /\ servo_calls # <<>>
    /\ 2 * state.pan_angle = 99 * AngleScale

(***************************************************************************)
(* C21: after any sequence of Init and setter calls smooth_factor is       *)
(* within [0,1] and min_angle_change is >= 0; SetSmoothFactor stores its   *)
(* argument clamped to [0,1], SetMinAngleChange stores its argument        *)
(* clamped to >= 0, every setter accepts every argument, and no setter     *)
(* changes a field of the tracker state.                                   *)
(***************************************************************************)
ClampTo(v, lo, hi) == IF v < lo THEN lo ELSE IF v > hi THEN hi ELSE v

C21_SettersClampAndKeepState ==
    /\ [](/\ config.smooth_factor \in 0..FactorScale
          /\ config.min_angle_change >= 0
          /\ moves < MaxMoves =>
                /\ \A factor \in ConfigSmoothArgs :
                      ENABLED ServoTrack_SetSmoothFactor(factor)
                /\ \A zone \in ConfigDeadZoneArgs :
                      ENABLED ServoTrack_SetDeadZone(zone)
                /\ \A threshold \in ConfigMinChangeArgs :
                      ENABLED ServoTrack_SetMinAngleChange(threshold)
                /\ \A a \in TrackInvertArgs :
                      ENABLED ServoTrack_SetAxisInvert(a))
    /\ [][/\ \A factor \in ConfigSmoothArgs :
               ServoTrack_SetSmoothFactor(factor) =>
                 /\ config'.smooth_factor = ClampTo(factor, 0, FactorScale)
                 /\ state' = state
          /\ \A threshold \in ConfigMinChangeArgs :
               ServoTrack_SetMinAngleChange(threshold) =>
                 /\ config'.min_angle_change =
                      (IF threshold < 0 THEN 0 ELSE threshold)
                 /\ state' = state
          /\ \A zone \in ConfigDeadZoneArgs :
               ServoTrack_SetDeadZone(zone) => state' = state
          /\ \A a \in TrackInvertArgs :
               ServoTrack_SetAxisInvert(a) => state' = state]_vars

\* both clamps have acted, on a tracker state that a tick has changed
C21_Witness ==
    /\ config.smooth_factor = FactorScale
    /\ config.min_angle_change = 0
    /\ state.lost_frames > 0
    /\ moves = MaxMoves

(***************************************************************************)
(* C22: in the main loop no execution of ServoTrack_Process acts on a      *)
(* detection result that an earlier execution has already acted on: the    *)
(* detector processes a newly captured frame between any two consecutive   *)
(* ticks.                                                                  *)
(***************************************************************************)
C22_OneTickPerFrame == ticks_on_result <= 1

(***************************************************************************)
(* C23: ServoTrack_Process is idempotent: a second tick on the same        *)
(* detector output leaves the tracker state as the first tick left it.     *)
(***************************************************************************)
\* the tracker state that one more ServoTrack_Process leaves
TickState ==
    IF ~ProcessEnabled(current_mode) THEN state
    ELSE IF spot_result.found # 0
    THEN ProcessFound(state, config, spot_result,
                      pan_invert_flag, tilt_invert_flag).st
    ELSE ProcessLost(state).st

C23_TickIdempotent == [][ServoTrack_Process => TickState' = state']_vars

\* C23 as the code has it: a second tick repeats the first only in MANUAL
\* and after a found tick that committed no move; a not-found tick in AUTO
\* counts once more
C23_TickRepeatsUnlessCountOrMove ==
    [][ServoTrack_Process =>
         /\ (MANUAL \/ (spot_result.found # 0 /\ servo_calls' = <<>>))
               => TickState' = state'
         /\ (AUTO /\ spot_result.found = 0)
               => TickState'.lost_frames = state'.lost_frames + 1]_vars

\* a found tick inside a widened dead zone has acquired the spot without
\* moving
C23_Witness ==
    /\ op = "Process.found"
    /\ AUTO
    /\ servo_calls = <<>>
    /\ state.tracking = 1
    /\ state.target_x = 0
    /\ config.dead_zone > 10

(***************************************************************************)
(* C24: in AUTO with both angles at 90 degrees and a detector output that  *)
(* is either found at the image center or not found, a tick, before and    *)
(* after the 30-tick timeout, makes no servo call and leaves both angles   *)
(* at 90.                                                                  *)
(***************************************************************************)
C24_CenteredHolds ==
    [][(/\ ServoTrack_Process
        /\ AUTO
        /\ AtCenter
        /\ \/ spot_result.found = 0
           \/ /\ 2 * spot_result.x = config.img_width
              /\ 2 * spot_result.y = config.img_height)
       => /\ servo_calls' = <<>>
          /\ AtCenter']_vars

\* a tick after the timeout, with the position of the image center in the
\* detection result, has left the centered angles alone
C24_Witness ==
    /\ op = "Process.lost"
    /\ AUTO
    /\ state.returning_to_center = 1
    /\ state.lost_frames > LostTimeout
    /\ AtCenter
    /\ servo_calls = <<>>
    /\ spot_result.x = 160
    /\ spot_result.y = 120

(***************************************************************************)
(* C25: for every 16-bit sample rgb565_to_brightness returns               *)
(* (77*R8 + 150*G8 + 29*B8) >> 8 with R8, G8, B8 the 5-, 6- and 5-bit      *)
(* fields expanded to 8 bits by replicating their high bits; the weighted  *)
(* sum fits 16 bits, the result is within 0..255, 0x0000 gives 0 and       *)
(* 0xFFFF gives 255, and the call changes no detector state.               *)
(***************************************************************************)
\* a | b for a multiple a of 2^k and b < 2^k, k = 3 or 2
Expand5(v) == 8 * v + v \div 4
Expand6(v) == 4 * v + v \div 16
WeightedSum(sample) ==
    77 * Expand5((sample \div 2048) % 32)
      + 150 * Expand6((sample \div 32) % 64)
      + 29 * Expand5(sample % 32)

C25_BrightnessFormula ==
    [][rgb565_to_brightness_call =>
         /\ Expand5((rgb565 \div 2048) % 32) \in 0..255
         /\ Expand6((rgb565 \div 32) % 64) \in 0..255
         /\ Expand5(rgb565 % 32) \in 0..255
         /\ WeightedSum(rgb565) \in 0..65535
         /\ brightness' = WeightedSum(rgb565) \div 256
         /\ brightness' \in 0..255
         /\ rgb565 = 0 => brightness' = 0
         /\ rgb565 = 65535 => brightness' = 255
         /\ UNCHANGED <<locator, spot_result>>]_vars

\* the conversion of 0xFFFF has returned
C25_Witness == rgb565 = 65535 /\ brightness = 255

(***************************************************************************)
(* C26: Servo_SetAngle is hardware-clamped: for channel 0 or 1, any        *)
(* angle, any configured center offset and any configured angle range,     *)
(* the compare value written is within [500, 2500]; with zero offset the   *)
(* angles 0, 90 and 180 give 500, 1500 and 2500; a call with channel >= 2  *)
(* writes nothing.                                                         *)
(***************************************************************************)
C26_PulseClamped ==
    [][\A ch \in ServoChannelArgs, angle \in ServoAngleArgs :
         Servo_SetAngle(ch, angle) =>
           /\ ch \in Channels =>
                /\ compare'[ch] \in PWM_MIN..PWM_MAX
                /\ \A c \in Channels \ {ch} : compare'[c] = compare[c]
                /\ servo_center_offset[ch] = 0 =>
                     /\ angle = 0 => compare'[ch] = PWM_MIN
                     /\ angle = Deg(90) => compare'[ch] = PWM_MID
                     /\ angle = Deg(180) => compare'[ch] = PWM_MAX
           /\ ch >= 2 => compare' = compare]_vars

\* channel 1, with an offset that pushes the mapped angle of the last call
\* past a reconfigured range, holds the largest pulse and channel 0 the
\* smallest
C26_Witness ==
    /\ servo_center_offset[1] = Deg(30)
    /\ servo_angle_min[1] = Deg(45)
    /\ servo_angle_max[1] = Deg(135)
    /\ compare[1] = PWM_MAX
    /\ compare[0] = PWM_MIN

(***************************************************************************)
(* C27: esp8266_send_cmd called with a non-null cmd and a non-null ack     *)
(* returns 0 when the ack string appears in the received bytes within      *)
(* waittime and returns 1 when waittime elapses without it.                *)
(***************************************************************************)
C27_SendCmdReportsAck ==
    (/\ send_cmd.ret # NoReturn
     /\ ~send_cmd.cmd_null
     /\ send_cmd.ack # NULL)
    => send_cmd.ret = (IF Contains(g_esp8266_rx_buf, send_cmd.ack)
                       THEN 0 ELSE 1)

(***************************************************************************)
(* C28: ManualControl(dpan, dtilt) called in MANUAL sets each angle to     *)
(* the old angle plus its increment, clamped to [0,180], with no           *)
(* smoothing, actuates both channels with the new values in the same call  *)
(* and leaves the mode, lost_frames, returning_to_center and tracking      *)
(* unchanged.                                                              *)
(***************************************************************************)
C28_ManualControlAddsAndClamps ==
    [][\A a \in ManualArgs \cup KeyDeltas :
         (MANUAL /\ ServoTrack_ManualControl(a)) =>
           /\ state' = [state EXCEPT
                          !.pan_angle = Clamp180(@ + Deg(a[1])),
                          !.tilt_angle = Clamp180(@ + Deg(a[2]))]
           /\ ActuatesBoth
           /\ compare' = [c \in Channels |->
                            IF c = config.pan_channel
                            THEN PulseOf(state'.pan_angle, 0, 0, Deg(180))
                            ELSE PulseOf(state'.tilt_angle, 0, 0, Deg(180))]
           /\ UNCHANGED current_mode]_vars

\* a large increment was clamped in MANUAL while the counters of an
\* earlier loss were still in place
C28_Witness ==
    /\ op = "ManualControl"
    /\ MANUAL
    /\ state.pan_angle = Deg(150)
    /\ state.tilt_angle = 0
    /\ state.returning_to_center = 1
    /\ state.lost_frames >= LostTimeout

(***************************************************************************)
(* C29: on a not-found tick with returning_to_center set, the candidate    *)
(* angles are old*0.75 + 90*0.25 per axis, whatever smooth_factor and      *)
(* min_angle_change are; they are committed and both channels actuated     *)
(* iff the pan change or the tilt change is >= 0.1 degrees, otherwise the  *)
(* angles are unchanged and nothing is actuated; a committed step moves    *)
(* neither axis farther from 90.                                           *)
(***************************************************************************)
ReturnCandidate(old) == RoundDiv(3 * old + Deg(90), 4)

C29_ReturnStep ==
    [][(/\ ServoTrack_Process_Ramp
        /\ AUTO
        /\ spot_result.found = 0
        /\ state'.returning_to_center = 1)
       => LET new_pan == ReturnCandidate(state.pan_angle)
              new_tilt == ReturnCandidate(state.tilt_angle)
              commit == \/ 10 * fabsf(new_pan - state.pan_angle) >= AngleScale
                        \/ 10 * fabsf(new_tilt - state.tilt_angle) >= AngleScale
          IN  /\ commit =>
                   /\ state'.pan_angle = new_pan
                   /\ state'.tilt_angle = new_tilt
                   /\ ActuatesBoth
                   /\ fabsf(state'.pan_angle - Deg(90))
                        <= fabsf(state.pan_angle - Deg(90))
                   /\ fabsf(state'.tilt_angle - Deg(90))
                        <= fabsf(state.tilt_angle - Deg(90))
              /\ ~commit => (AnglesUnchanged /\ NoActuation)]_vars

\* the first step of a return from (0, 180) has been committed with
\* smooth_factor 0 and min_angle_change 2.5
C29_Witness ==
    /\ op = "Process.lost"
    /\ state.returning_to_center = 1
    /\ state.lost_frames = LostTimeout
    /\ config.smooth_factor = 0
    /\ config.min_angle_change = 250
    /\ state.pan_angle = 2250
    /\ state.tilt_angle = 15750
    /\ servo_calls # <<>>

(***************************************************************************)
(* C30: in AUTO, a not-found tick that leaves returning_to_center clear    *)
(* (the lost-counting phase, lost_frames 1..29) keeps pan_angle and        *)
(* tilt_angle and makes no actuation call.                                 *)
(***************************************************************************)
C30_LostCountingHolds ==
    [][(/\ ServoTrack_Process
        /\ AUTO
        /\ spot_result.found = 0
        /\ state'.returning_to_center = 0)
       => /\ AnglesUnchanged
          /\ NoActuation
          /\ compare' = compare
          /\ state'.lost_frames \in 1..(LostTimeout - 1)]_vars

\* the last tick of the lost-counting phase after a move away from the
\* center
C30_Witness ==
    /\ op = "Process.lost"
    /\ AUTO
    /\ state.returning_to_center = 0
    /\ state.lost_frames = LostTimeout - 1
    /\ state.pan_angle # Deg(90)
    /\ servo_calls = <<>>

(***************************************************************************)
(* C31: when SPOT_Detect_RGB565_Centroid returns, max_brightness is the     *)
(* largest brightness of the frame and (max_x, max_y) is the first pixel,  *)
(* in row-major order (y outer, x inner), that has it: a later pixel of    *)
(* equal brightness never replaces it.                                     *)
(***************************************************************************)
\* the largest brightness of the frame f and the pixel of that brightness
\* with the least row-major index y * w + x
FirstMax(f) ==
    LET B(i) == Brightness(f, i % f.w, i \div f.w)
        mx == SetMax({B(i) : i \in 0..(f.w * f.h - 1)})
        first == CHOOSE i \in 0..(f.w * f.h - 1) :
                     /\ B(i) = mx
                     /\ \A j \in 0..(i - 1) : B(j) # mx
    IN  [brightness |-> mx, x |-> first % f.w, y |-> first \div f.w]

FirstMaxOf == [f \in RgbFrames \cup ScanFrames |-> FirstMax(f)]

C31_FirstMaxWins ==
    scan.rgb_buf # <<>> => scan.max = FirstMaxOf[scan.rgb_buf]

\* a frame whose first white pixel is (1, 0) and that has another white
\* pixel later in the scan, at the smaller x of (0, 1)
C31_Witness ==
    /\ scan.rgb_buf \in GridFrames
    /\ scan.max = [brightness |-> 255, x |-> 1, y |-> 0]
    /\ Brightness(scan.rgb_buf, 0, 1) = 255

(***************************************************************************)
(* C32: the window scanned in step 2 is centered on the max point with     *)
(* half-width 15 and clipped to the frame.  As claimed: the pixels read    *)
(* are exactly the pixels (x, y) of the frame with |x - max_x| <= 15 and   *)
(* |y - max_y| <= 15.  The loops run up to win_x_end and win_y_end         *)
(* exclusive, so what holds is: the pixels read are exactly the pixels of  *)
(* the frame with max_x - 15 <= x <= max_x + 14 and                        *)
(* max_y - 15 <= y <= max_y + 14, a window of LOCAL_WINDOW_SIZE = 30       *)
(* columns and rows, and no read falls outside the frame.                  *)
(***************************************************************************)
\* step 2 of the observed call was executed
Step2Ran == scan.rgb_buf # <<>> /\ scan.result.exit # "dark"

InFrame(f) == (0..(f.w - 1)) \X (0..(f.h - 1))

C32_WindowSymmetric ==
    Step2Ran =>
        scan.reads = {p \in InFrame(scan.rgb_buf) :
                         /\ p[1] - scan.max.x <= 15 /\ scan.max.x - p[1] <= 15
                         /\ p[2] - scan.max.y <= 15 /\ scan.max.y - p[2] <= 15}

C32_WindowHalfOpen ==
    Step2Ran =>
        /\ scan.reads = {p \in InFrame(scan.rgb_buf) :
                            /\ p[1] - scan.max.x <= 14 /\ scan.max.x - p[1] <= 15
                            /\ p[2] - scan.max.y <= 14 /\ scan.max.y - p[2] <= 15}
        /\ \A p \in scan.reads :
               p[2] * scan.rgb_buf.w + p[1] < scan.rgb_buf.w * scan.rgb_buf.h

\* the max point is at least 15 pixels away from every border: the window
\* is not clipped
C32_Witness ==
    /\ Step2Ran
    /\ scan.max.x = 24 /\ scan.max.y = 24
    /\ Cardinality(scan.reads) = 30 * 30

\* the window is clipped on the right and at the bottom
C32_WitnessClipped ==
    /\ Step2Ran
    /\ scan.max.x = 39 /\ scan.max.y = 39
    /\ Cardinality(scan.reads) = 16 * 16

(***************************************************************************)
(* C33: SPOT_Detect_RGB565_Centroid reports found = 1 if and only if the   *)
(* maximum brightness reaches the threshold, at least 30 pixels of the     *)
(* window have a brightness of at least                                    *)
(* max(max_brightness * 80 / 100, threshold), and the squares of their     *)
(* brightness sum to at least 1,000,000.  On success intensity is that     *)
(* pixel count and the lost counter is 0; in every other case it reports   *)
(* found = 0 and adds one to the lost counter.  As claimed the counter     *)
(* grows by one; it is 8 bits wide, so what holds is that it grows by one  *)
(* modulo 256.                                                             *)
(***************************************************************************)
RECURSIVE SquareSum(_, _)
SquareSum(f, Q) ==
    IF Q = {} THEN 0
    ELSE LET b == Brightness(f, (CHOOSE p \in Q : TRUE)[1],
                                (CHOOSE p \in Q : TRUE)[2])
             same == {p \in Q : Brightness(f, p[1], p[2]) = b}
         IN  b * b * Cardinality(same) + SquareSum(f, Q \ same)

\* the three gates, stated on the pixels of the frame
Gates(f, threshold) ==
    LET m == FirstMaxOf[f]
        scaled == (m.brightness * 80) \div 100
        floor == IF scaled > threshold THEN scaled ELSE threshold
        Q == {p \in ((m.x - 15)..(m.x + 14)) \X ((m.y - 15)..(m.y + 14)) :
                 /\ p \in InFrame(f)
                 /\ Brightness(f, p[1], p[2]) >= floor}
    IN  [pass |-> /\ m.brightness >= threshold
                  /\ Cardinality(Q) >= 30
                  /\ SquareSum(f, Q) >= 1000000,
         count |-> Cardinality(Q)]

GatesOf == [f \in RgbFrames |-> [t \in Thresholds |-> Gates(f, t)]]

C33_FoundIffGates ==
    [][\A f \in RgbFrames :
          SPOT_Detect_RGB565_Centroid(f) =>
              LET g == GatesOf[f][bright_threshold]
              IN  /\ spot_result'.found = 1 <=> g.pass
                  /\ g.pass => /\ spot_result'.intensity = g.count
                               /\ lost_count' = 0
                  /\ ~g.pass => /\ spot_result'.found = 0
                                /\ lost_count' = lost_count + 1]_vars

C33_FoundIffGatesMod256 ==
    [][\A f \in RgbFrames :
          SPOT_Detect_RGB565_Centroid(f) =>
              LET g == GatesOf[f][bright_threshold]
              IN  /\ spot_result'.found = 1 <=> g.pass
                  /\ g.pass => /\ spot_result'.intensity = g.count
                               /\ lost_count' = 0
                  /\ ~g.pass => /\ spot_result'.found = 0
                                /\ lost_count' = (lost_count + 1) % 256]_vars

\* a frame has been rejected by the score gate alone, at a lost counter
\* above 0, after an earlier success
C33_Witness ==
    /\ det_op = <<"RGB565_Centroid", "score">>
    /\ spot_result.found = 0
    /\ lost_count = 2
    /\ successes > 0

(***************************************************************************)
(* C34: both locate entry points apply the same temporal filter to the     *)
(* shared history: a successful SPOT_Detect_Process leaves the filtered    *)
(* position, the result and init_frames that a successful                  *)
(* SPOT_Detect_RGB565_Centroid leaves when it starts from the same last_x, *)
(* last_y and init_frames and filters the same position.                   *)
(***************************************************************************)
C34_EntryPointsFilterAlike ==
    [][(StreamCall /\ det_op'[2] = "found") =>
          LET fx == Filtered(last_x, centroid'[1], RgbAlpha, init_frames)
              fy == Filtered(last_y, centroid'[2], RgbAlpha, init_frames)
          IN  /\ last_x' = fx
              /\ last_y' = fy
              /\ spot_result'.x = (fx \div PosScale) % 65536
              /\ spot_result'.y = (fy \div PosScale) % 65536
              /\ init_frames' = IF init_frames < InitPhaseFrames
                                THEN init_frames + 1 ELSE init_frames]_vars

(***************************************************************************)
(* C35: with distinct pan and tilt channels, after every operation of the  *)
(* controller the angle most recently passed to Servo_SetAngle for the pan *)
(* channel is pan_angle and the one for the tilt channel is tilt_angle,    *)
(* and no step changes a stored angle without passing both stored angles   *)
(* to Servo_SetAngle in the same operation.                                *)
(***************************************************************************)
C35_CommandedIsStored ==
    /\ [](config.pan_channel # config.tilt_channel =>
             /\ commanded[config.pan_channel] = state.pan_angle
             /\ commanded[config.tilt_channel] = state.tilt_angle)
    /\ [][(\/ state'.pan_angle # state.pan_angle
           \/ state'.tilt_angle # state.tilt_angle) =>
              servo_calls' = << <<config'.pan_channel, state'.pan_angle>>,
                                <<config'.tilt_channel, state'.tilt_angle>> >>]_vars

\* a tracking tick has moved both axes away from the center
C35_Witness ==
    /\ op = "Process.found"
    /\ servo_calls # <<>>
    /\ state.pan_angle # Deg(90)
    /\ state.tilt_angle # Deg(90)
    /\ commanded[config.pan_channel] = state.pan_angle
    /\ commanded[config.tilt_channel] = state.tilt_angle

(***************************************************************************)
(* C36: in AUTO with a constant found position outside the dead zone,      *)
(* smooth_factor k in (0, 1] and min_angle_change m > 0, every tick leaves *)
(* each axis between its previous angle and the clamped target angle, and  *)
(* after finitely many ticks no tick actuates or changes the angles any    *)
(* more; from then on each axis is within m / k degrees of its clamped     *)
(* target.                                                                 *)
(***************************************************************************)
\* the target angles of the reported position, clamped to [0, 180] degrees
ClampedTarget ==
    LET t == coord_to_angles(spot_result.x, spot_result.y, config,
                             pan_invert_flag, tilt_invert_flag)
    IN  [pan |-> Clamp180(t.pan), tilt |-> Clamp180(t.tilt)]

Between(from, angle, to) ==
    (from <= angle /\ angle <= to) \/ (to <= angle /\ angle <= from)

\* m / k in 1/AngleScale degrees, rounded down
Band == (config.min_angle_change * FactorScale) \div config.smooth_factor

\* |angle - target| <= m / k
WithinBand(angle, target) == (angle - target) \in (-Band)..Band

\* C36: in AUTO, with the detector reporting one found position outside the
\* dead zone on every tick, smooth_factor in (0, 1] and min_angle_change
\* above 0: no tick carries an angle past the clamped target, from some tick
\* on no tick actuates the servos or changes the angles, and the angles held
\* then are within min_angle_change / smooth_factor of the clamped target on
\* each axis.
C36_ConvergesWithoutOvershoot ==
    /\ [][/\ Between(state.pan_angle, state'.pan_angle, ClampedTarget.pan)
          /\ Between(state.tilt_angle, state'.tilt_angle,
                     ClampedTarget.tilt)]_vars
    /\ <>[][/\ servo_calls' = <<>>
            /\ state'.pan_angle = state.pan_angle
            /\ state'.tilt_angle = state.tilt_angle]_vars
    /\ <>[](/\ WithinBand(state.pan_angle, ClampedTarget.pan)
            /\ WithinBand(state.tilt_angle, ClampedTarget.tilt))

\* the servos have moved and now rest short of the target on both axes: the
\* last tick did not actuate
C36_Witness ==
    /\ op = "Process.found"
    /\ servo_calls = <<>>
    /\ state.tracking = 1
    /\ config.smooth_factor < FactorScale
    /\ state.pan_angle \notin {ClampedTarget.pan, Deg(90)}
    /\ state.tilt_angle \notin {ClampedTarget.tilt, Deg(90)}
    /\ commanded[config.pan_channel] = state.pan_angle
    /\ in_dead_zone(spot_result.x, spot_result.y, config) = FALSE

(***************************************************************************)
(* C37: ServoTrack_SetMode called with the mode the controller is already  *)
(* in.                                                                     *)
(***************************************************************************)
\* C37: a call of ServoTrack_SetMode with the current mode leaves the mode,
\* the tracking state (lost_frames and returning_to_center included), the
\* configuration, the invert flags and the servo outputs as they are and
\* calls Servo_SetAngle for no channel.
C37_SameModeChangesNothing ==
    [][\A mode \in Modes :
          (current_mode = mode /\ ServoTrack_SetMode(mode)) =>
              /\ UNCHANGED <<current_mode, state, config, pan_invert_flag,
                             tilt_invert_flag, spot_result, compare,
                             commanded>>
              /\ servo_calls' = <<>>]_vars

\* SetMode has just been called in AUTO while a return to center is under
\* way, and the return is still under way
C37_Witness ==
    /\ op = "SetMode"
    /\ AUTO
    /\ state.returning_to_center = 1
    /\ state.lost_frames > LostTimeout

(***************************************************************************)
(* C38, C39: the hand-off of a captured frame between the interrupt        *)
(* handlers and jpeg_test.                                                 *)
(***************************************************************************)
\* a step of one of the two interrupt handlers
InterruptStep == jpeg_data_process \/ jpeg_dcmi_rx_callback

C39_WritesInsideBuffer ==
    /\ g_jpeg_data_len <= jpeg_buf_size
    /\ dma_write # <<>> => dma_write[2] <= jpeg_buf_size

====
